---- MODULE Spec2Model ----
(***************************************************************************)
(* Shader Maker: the GLSL program object (CShader, the implementation of   *)
(* IShader / IUniformState) and the uniform variable record (CUniform).    *)
(*                                                                         *)
(* The OpenGL driver is the environment.  Every driver call an operation   *)
(* makes is appended to `calls`; what the driver answers (object names,    *)
(* compile / link / validate status, the active uniforms and their         *)
(* locations, an exception thrown from inside a call) is chosen            *)
(* nondeterministically from small sets.                                   *)
(***************************************************************************)
EXTENDS Integers, Sequences, FiniteSets, TLC

\* ------------------------------------------------------------------------
\* IShader::shaderType_e
\* ------------------------------------------------------------------------
TYPE_VERTEX == 0
TYPE_GEOMETRY == 1
TYPE_FRAGMENT == 2
MAX_SHADER_TYPES == 3

Stages == 0 .. (MAX_SHADER_TYPES - 1)

\* ------------------------------------------------------------------------
\* OpenGL symbols used by the code, kept symbolic
\* ------------------------------------------------------------------------
GL_FLOAT == "GL_FLOAT"
GL_FLOAT_VEC2 == "GL_FLOAT_VEC2"
GL_FLOAT_VEC3 == "GL_FLOAT_VEC3"
GL_FLOAT_VEC4 == "GL_FLOAT_VEC4"
GL_INT == "GL_INT"
GL_INT_VEC2 == "GL_INT_VEC2"
GL_INT_VEC3 == "GL_INT_VEC3"
GL_INT_VEC4 == "GL_INT_VEC4"
GL_BOOL == "GL_BOOL"
GL_BOOL_VEC2 == "GL_BOOL_VEC2"
GL_BOOL_VEC3 == "GL_BOOL_VEC3"
GL_BOOL_VEC4 == "GL_BOOL_VEC4"
GL_FLOAT_MAT2 == "GL_FLOAT_MAT2"
GL_FLOAT_MAT3 == "GL_FLOAT_MAT3"
GL_FLOAT_MAT4 == "GL_FLOAT_MAT4"
GL_SAMPLER_1D == "GL_SAMPLER_1D"
GL_SAMPLER_2D == "GL_SAMPLER_2D"
GL_SAMPLER_3D == "GL_SAMPLER_3D"
GL_SAMPLER_CUBE == "GL_SAMPLER_CUBE"
GL_SAMPLER_1D_SHADOW == "GL_SAMPLER_1D_SHADOW"
GL_SAMPLER_2D_SHADOW == "GL_SAMPLER_2D_SHADOW"
GL_NONE_TYPE == "0"

GL_POINTS == "GL_POINTS"
GL_LINES == "GL_LINES"
GL_LINES_ADJACENCY_EXT == "GL_LINES_ADJACENCY_EXT"
GL_TRIANGLES == "GL_TRIANGLES"
GL_TRIANGLES_ADJACENCY_EXT == "GL_TRIANGLES_ADJACENCY_EXT"
GL_LINE_STRIP == "GL_LINE_STRIP"
GL_TRIANGLE_STRIP == "GL_TRIANGLE_STRIP"
GL_LINE_STRIP_ADJACENCY == "GL_LINE_STRIP_ADJACENCY"

\* ------------------------------------------------------------------------
\* Bounds of the model
\* ------------------------------------------------------------------------
\* the clock runs from 0 to MaxClock milliseconds
MaxClock == 1
\* setUniform is tried with indices -1 .. MaxIndex
MaxIndex == 2
\* a caller applies up to MaxSets setters to one CUniform object
MaxSets == 2

\* ------------------------------------------------------------------------
\* GLfloat words.  m_data is a union of 16 GLfloat and 4 GLint: the model
\* keeps the 16 raw 32-bit words, written as the GLint that _int reads from
\* them.  FloatBits is the word of the float nearest to a value given in
\* thousandths (the IEEE-754 single precision bit pattern), BitsFloat the
\* value in thousandths that a word is the nearest float of (defined on the
\* patterns FloatBits produces).
\* ------------------------------------------------------------------------
FloatBits(milli) ==
    CASE milli = 0    -> 0
      [] milli = 1    -> 981668463
      [] milli = 2    -> 990057071
      [] milli = 3    -> 994352038
      [] milli = 4    -> 998445679
      [] milli = 5    -> 1000593162
      [] milli = 100  -> 1036831949
      [] milli = 200  -> 1045220557
      [] milli = 300  -> 1050253722
      [] milli = 400  -> 1053609165
      [] milli = 500  -> 1056964608
      [] milli = 1000 -> 1065353216

FloatDomain == {0, 1, 2, 3, 4, 5, 100, 200, 300, 400, 500, 1000}

BitsFloat(word) == CHOOSE milli \in FloatDomain : FloatBits(milli) = word

\* A double.  [milli |-> m, single |-> FALSE] is the double nearest to
\* m / 1000 (what the literal or the product double(ms) * 0.001 evaluates
\* to); [milli |-> m, single |-> TRUE] is the value of the float nearest to
\* m / 1000 where that float is another number than the double.  The values
\* 0, 0.5 and 1 are floats, so for them there is one double only.
SingleExact == {0, 500, 1000}

Double(milli) == [milli |-> milli, single |-> FALSE]

\* static_cast<float>( value ) and the store into _float: rounds to the
\* nearest float
NarrowToFloat(value) == FloatBits(value.milli)

\* the load from _float and static_cast<double>: exact
WidenToDouble(word) ==
    [milli |-> BitsFloat(word), single |-> BitsFloat(word) \notin SingleExact]

\* ------------------------------------------------------------------------
\* CUniform
\* ------------------------------------------------------------------------
DataWords == 16

ZeroData == [i \in 1 .. DataWords |-> 0]

\* CUniform::CUniform( name, type, location ).  The test of line 43,
\* m_type == GL_FLOAT_VEC2 || GL_FLOAT_VEC3 || GL_FLOAT_VEC4, is true for
\* every type (the two right operands are nonzero constants).
CUniformNew(name, type, location) ==
    LET d0 == ZeroData
        d1 == IF type = GL_FLOAT THEN [d0 EXCEPT ![1] = FloatBits(100)] ELSE d0
        d2 == [d1 EXCEPT ![1] = FloatBits(100), ![2] = FloatBits(200),
                         ![3] = FloatBits(300), ![4] = FloatBits(400)]
        d3 == IF type = GL_FLOAT_MAT2
              THEN [d2 EXCEPT ![1] = FloatBits(1000), ![4] = FloatBits(1000)]
              ELSE d2
        d4 == IF type = GL_FLOAT_MAT3
              THEN [d3 EXCEPT ![1] = FloatBits(1000), ![5] = FloatBits(1000),
                              ![9] = FloatBits(1000)]
              ELSE d3
        d5 == IF type = GL_FLOAT_MAT4
              THEN [d4 EXCEPT ![1] = FloatBits(1000), ![6] = FloatBits(1000),
                              ![11] = FloatBits(1000), ![16] = FloatBits(1000)]
              ELSE d4
    IN  [m_name |-> name, m_type |-> type, m_location |-> location, m_data |-> d5]

\* CUniform::CUniform( void ): name = QString(), type = 0, location = -1
CUniformDefault == CUniformNew("", GL_NONE_TYPE, -1)

\* a faulty copy that keeps the location of the source entry; property
\* C1_MigrationKeepsPayload tells it from CUniformCopy
CUniformCopyKeepsLocation(u, location) == u

\* CUniform::CUniform( const CUniform & u, int location )
CUniformCopy(u, location) ==
    [m_name |-> u.m_name, m_type |-> u.m_type, m_location |-> location,
     m_data |-> u.m_data]

\* a faulty setter that also clears the other three components; property
\* C22_SettersRoundTrip tells it from setValueAsInt
setValueAsIntClearsRest(u, component, value) ==
    [u EXCEPT !.m_data = [i \in 1 .. DataWords |->
                             IF i = component + 1 THEN value
                             ELSE IF i <= 4 THEN 0 ELSE @[i]]]

\* CUniform::setValueAsInt( component, value ): the GLint is stored as it is
setValueAsInt(u, component, value) ==
    [u EXCEPT !.m_data[component + 1] = value]

\* the conversion of the bool argument to the int parameter of setValueAsInt
BoolToInt(value) == IF value THEN 1 ELSE 0

\* CUniform::setValueAsBool( component, value )
setValueAsBool(u, component, value) == setValueAsInt(u, component, BoolToInt(value))

\* CUniform::setValueAsFloat( component, value ), value a double
setValueAsFloat(u, component, value) ==
    [u EXCEPT !.m_data[component + 1] = NarrowToFloat(value)]

\* CUniform::getValueAsBool( component )
getValueAsBool(u, component) == IF u.m_data[component + 1] /= 0 THEN TRUE ELSE FALSE

\* CUniform::getValueAsInt( component )
getValueAsInt(u, component) == u.m_data[component + 1]

\* CUniform::getValueAsFloat( component ), a double
getValueAsFloat(u, component) == WidenToDouble(u.m_data[component + 1])

\* CUniform::baseType_e and CUniform::getBaseType; the samplers have no case
BASE_TYPE_BAD == 0
BASE_TYPE_BOOL == 1
BASE_TYPE_INT == 2
BASE_TYPE_FLOAT == 3

getBaseType(u) ==
    CASE u.m_type \in {GL_BOOL, GL_BOOL_VEC2, GL_BOOL_VEC3, GL_BOOL_VEC4} -> BASE_TYPE_BOOL
      [] u.m_type \in {GL_INT, GL_INT_VEC2, GL_INT_VEC3, GL_INT_VEC4} -> BASE_TYPE_INT
      [] u.m_type \in {GL_FLOAT, GL_FLOAT_VEC2, GL_FLOAT_VEC3, GL_FLOAT_VEC4,
                       GL_FLOAT_MAT2, GL_FLOAT_MAT3, GL_FLOAT_MAT4} -> BASE_TYPE_FLOAT
      [] OTHER -> BASE_TYPE_BAD

\* CUniform::getColumnCount
getColumnCount(u) ==
    CASE u.m_type = GL_FLOAT_MAT2 -> 2
      [] u.m_type = GL_FLOAT_MAT3 -> 3
      [] u.m_type = GL_FLOAT_MAT4 -> 4
      [] OTHER -> 1

\* the local `components` of getColumnVector and setColumnVector
ColumnComponents(u) ==
    CASE u.m_type = GL_FLOAT_MAT2 -> 2
      [] u.m_type = GL_FLOAT_MAT3 -> 3
      [] u.m_type = GL_FLOAT_MAT4 -> 4
      [] OTHER -> 0

\* the local `type` of getColumnVector
ColumnType(u) ==
    CASE u.m_type = GL_FLOAT_MAT2 -> GL_FLOAT_VEC2
      [] u.m_type = GL_FLOAT_MAT3 -> GL_FLOAT_VEC3
      [] u.m_type = GL_FLOAT_MAT4 -> GL_FLOAT_VEC4
      [] OTHER -> GL_NONE_TYPE

\* m_name + QString( "[%1]" ).arg( column )
ColumnName(name, column) == name \o "[" \o ToString(column) \o "]"

\* CUniform::getColumnVector( column ), column < getColumnCount()
getColumnVector(u, column) ==
    IF ColumnComponents(u) = 0 THEN CUniformDefault
    ELSE [CUniformNew(ColumnName(u.m_name, column), ColumnType(u), -1)
              EXCEPT !.m_data = [i \in 1 .. DataWords |->
                                    IF i <= ColumnComponents(u)
                                    THEN u.m_data[ColumnComponents(u) * column + i]
                                    ELSE @[i]]]

\* a faulty setColumnVector that takes the matrix as stored in row-major
\* order; property C23_ColumnRoundTrip tells it from setColumnVector
setColumnVectorRowMajor(m, column, u) ==
    [m EXCEPT !.m_data = [i \in 1 .. DataWords |->
                             IF /\ i <= ColumnComponents(m) * ColumnComponents(m)
                                /\ (i - 1) % ColumnComponents(m) = column
                             THEN u.m_data[((i - 1) \div ColumnComponents(m)) + 1]
                             ELSE @[i]]]

\* CUniform::setColumnVector( column, u ) on the matrix m,
\* column < getColumnCount() and the base types equal
setColumnVector(m, column, u) ==
    [m EXCEPT !.m_data = [i \in 1 .. DataWords |->
                             IF /\ i > ColumnComponents(m) * column
                                /\ i <= ColumnComponents(m) * column + ColumnComponents(m)
                             THEN u.m_data[i - ColumnComponents(m) * column]
                             ELSE @[i]]]

\* QString::compare( ..., Qt::CaseInsensitive ) folds case before comparing
ToLower(s) ==
    CASE s = "Time" -> "time"
      [] s = "TIME" -> "time"
      [] s = "Foo"  -> "foo"
      [] OTHER      -> s

\* the test of CShader::updateTimeVariable
IsTimeVariable(u) == u.m_type = GL_FLOAT /\ ToLower("time") = ToLower(u.m_name)

\* ------------------------------------------------------------------------
\* VertexAttribLocations
\* ------------------------------------------------------------------------
VertexAttribLocations(Tangent, Bitangent) == [tangent |-> Tangent, bitangent |-> Bitangent]

NoAttribLocations == VertexAttribLocations(-1, -1)

\* ------------------------------------------------------------------------
\* State
\* ------------------------------------------------------------------------
VARIABLES
    \* CShader
    m_activeUniforms, m_oldUniforms, m_geometryShaderAvailable, m_linked,
    m_log, m_timer, m_num_output, m_geometryInputType, m_geometryOutputType,
    m_attribLocations, m_shaderSources, m_shaders, m_program,
    \* the driver: live program and shader objects, the program in use
    glPrograms, glShaders, glCurrent,
    \* the wall clock (QTime::currentTime), in milliseconds
    clock,
    \* what the caller and the driver saw of the most recent operation
    calls, lastOp, lastResult, lastAttribs,
    \* what happened in the most recent compileAndLink attempt, and the
    \* clock at the most recent compileAndLink that returned true (okAt, -1
    \* before the first)
    attempt,
    \* whether the locations held in m_activeUniforms were reflected from
    \* the program object now named by m_program
    tableOrigin,
    \* a CUniform object in the hands of a caller, and the member function
    \* the caller applied to it last
    value, valueOp

shaderVars == <<m_activeUniforms, m_oldUniforms, m_geometryShaderAvailable, m_linked,
                m_log, m_timer, m_num_output, m_geometryInputType,
                m_geometryOutputType, m_attribLocations, m_shaderSources,
                m_shaders, m_program>>

driverVars == <<glPrograms, glShaders, glCurrent>>

valueVars == <<value, valueOp>>

vars == <<shaderVars, driverVars, clock, calls, lastOp, lastResult, lastAttribs,
          attempt, tableOrigin, valueVars>>

\* ------------------------------------------------------------------------
\* What the environment supplies
\* ------------------------------------------------------------------------
\* source texts handed to setShaderSource
SourceTexts == {"", "void main(){}"}

\* the uniform lists a linked program can report: <<name, type, location>>
ReflectChoices ==
    { <<>>,
      << <<"foo", GL_FLOAT_VEC3, 3>> >>,
      << <<"foo", GL_FLOAT_VEC3, 7>>, <<"Time", GL_FLOAT, 3>> >> }

\* the locations glGetAttribLocation can report for attrTangent, attrBitangent
AttribChoices == {VertexAttribLocations(-1, -1), VertexAttribLocations(1, 2)}

\* results of one shader stage: compiled, compile error, no shader object
StageResults == {"ok", "error", "nohandle"}

\* the uniforms a caller passes to setUniform: the payload (1, 0, 0, 1)
\* under the names, types and locations the driver reports, and under a
\* name or a type that the entry at that location does not have
UserData ==
    { [i \in 1 .. DataWords |->
          IF i \in {1, 4} THEN FloatBits(1000) ELSE 0] }

UserSlots ==
    { <<"foo", GL_FLOAT_VEC3, 3>>, <<"foo", GL_FLOAT_VEC3, 7>>,
      <<"Time", GL_FLOAT, 3>>, <<"foo", GL_FLOAT, 3>>, <<"Time", GL_FLOAT_VEC3, 3>> }

UserUniforms ==
    { [m_name |-> s[1], m_type |-> s[2], m_location |-> s[3], m_data |-> d] :
        s \in UserSlots, d \in UserData }

\* no exception
NoFault == <<"none", 0>>

NoAttempt ==
    [status |-> "none", link |-> "na", valid |-> "na", empty |-> FALSE, okAt |-> -1,
     asserted |-> TRUE]

\* no member function has been applied to `value` since its construction
\* with the given type; `count` is the number of setter calls since then
Constructed(type) ==
    [op |-> "CUniform", index |-> -1, arg |-> type, count |-> 0]

\* ------------------------------------------------------------------------
\* Construction
\* ------------------------------------------------------------------------
\* CShader::CShader.  m_timer is a null QTime, whose ds() is 0.
Init ==
    /\ m_activeUniforms = <<>>
    /\ m_oldUniforms = <<>>
    /\ m_geometryShaderAvailable = FALSE
    /\ m_linked = FALSE
    /\ m_log = <<>>
    /\ m_timer = 0
    /\ m_num_output = 4
    /\ m_geometryInputType = GL_LINE_STRIP_ADJACENCY
    /\ m_geometryOutputType = GL_TRIANGLE_STRIP
    /\ m_attribLocations = NoAttribLocations
    /\ m_shaderSources = [i \in Stages |-> ""]
    /\ m_shaders = [i \in Stages |-> 0]
    /\ m_program = 0
    /\ glPrograms = {}
    /\ glShaders = {}
    /\ glCurrent = 0
    /\ clock = 0
    /\ calls = <<>>
    /\ lastOp = "create"
    /\ lastResult = TRUE
    /\ lastAttribs = NoAttribLocations
    /\ attempt = NoAttempt
    /\ tableOrigin = "none"
    /\ value = CUniformDefault
    /\ valueOp = Constructed(GL_NONE_TYPE)

\* ------------------------------------------------------------------------
\* The object during an operation: the fields an operation can change, the
\* driver calls made so far, whether a driver call has thrown, the local
\* totalResult of compileAndLink2 and the value the function at hand returns
\* ------------------------------------------------------------------------
Cur ==
    [m_activeUniforms |-> m_activeUniforms, m_oldUniforms |-> m_oldUniforms,
     m_linked |-> m_linked, m_log |-> m_log, m_timer |-> m_timer,
     m_attribLocations |-> m_attribLocations, m_shaders |-> m_shaders,
     m_program |-> m_program,
     glPrograms |-> glPrograms, glShaders |-> glShaders, glCurrent |-> glCurrent,
     calls |-> <<>>, thrown |-> FALSE, tableOrigin |-> tableOrigin,
     link |-> "na", valid |-> "na", totalResult |-> TRUE, result |-> TRUE,
     asserted |-> TRUE]

\* one driver call made at a call site; it throws when the driver faults there
Call(st, site, c, fault) ==
    IF st.thrown THEN st
    ELSE [st EXCEPT !.calls = Append(@, c), !.thrown = (fault = site)]

\* several driver calls of a loop whose first call site is `site`
CallAll(st, site, cs, fault) ==
    IF st.thrown \/ cs = <<>> THEN st
    ELSE IF fault = site
         THEN [st EXCEPT !.calls = Append(@, cs[1]), !.thrown = TRUE]
         ELSE [st EXCEPT !.calls = @ \o cs]

\* the statements F that follow a driver call run unless the call has thrown
Then(st, F(_)) == IF st.thrown THEN st ELSE F(st)

\* a name the driver has not in use (glCreateProgram, glCreateShader)
NewName(st) ==
    CHOOSE n \in 1 .. (MAX_SHADER_TYPES + 2) :
        /\ n \notin (st.glPrograms \cup st.glShaders)
        /\ \A k \in 1 .. (n - 1) : k \in (st.glPrograms \cup st.glShaders)

\* IShader::getShaderTypeName
getShaderTypeName(symbol) ==
    CASE symbol = TYPE_VERTEX   -> "Vertex Shader"
      [] symbol = TYPE_GEOMETRY -> "Geometry Shader"
      [] symbol = TYPE_FRAGMENT -> "Fragment Shader"
      [] OTHER                  -> "<bad shader type>"

\* CShader::isShaderTypeAvailable
isShaderTypeAvailable(type) ==
    CASE type = TYPE_VERTEX   -> TRUE
      [] type = TYPE_FRAGMENT -> TRUE
      [] type = TYPE_GEOMETRY -> m_geometryShaderAvailable
      [] OTHER                -> FALSE

\* ------------------------------------------------------------------------
\* CShader::deactivateProgram
\* ------------------------------------------------------------------------
\* if( m_program != 0 ) { glDeleteProgram( m_program ); m_program = 0; }
DeleteProgramStep(st, fault) ==
    IF st.thrown \/ st.m_program = 0 THEN st
    ELSE Then(Call(st, <<"glDeleteProgram", 0>>, <<"glDeleteProgram", st.m_program>>, fault),
              LAMBDA c : [c EXCEPT !.glPrograms = @ \ {c.m_program},
                                   !.m_program = 0,
                                   !.tableOrigin = IF @ = "current" THEN "earlier" ELSE @])

\* a faulty loop body that deletes the shader object and keeps its name;
\* property C17_DeactivateKeepsSources tells it from DeleteShaderStep
DeleteShaderKeepsName(st, i, fault) ==
    IF st.thrown \/ st.m_shaders[i] = 0 THEN st
    ELSE Then(Call(st, <<"glDeleteShader", i>>, <<"glDeleteShader", st.m_shaders[i]>>, fault),
              LAMBDA c : [c EXCEPT !.glShaders = @ \ {c.m_shaders[i]}])

\* if( m_shaders[ i ] != 0 ) { glDeleteShader( m_shaders[ i ] ); m_shaders[ i ] = 0; }
DeleteShaderStep(st, i, fault) ==
    IF st.thrown \/ st.m_shaders[i] = 0 THEN st
    ELSE Then(Call(st, <<"glDeleteShader", i>>, <<"glDeleteShader", st.m_shaders[i]>>, fault),
              LAMBDA c : [c EXCEPT !.glShaders = @ \ {c.m_shaders[i]},
                                   !.m_shaders[i] = 0])

\* a faulty deactivateProgram without the loop over the shader objects;
\* property C29_HandlesAreKeptInOrder tells it from deactivateProgramRun
deactivateProgramRunProgramOnly(st, fault) ==
    LET s1 == [st EXCEPT !.m_linked = FALSE,
                         !.m_attribLocations = VertexAttribLocations(-1, -1)]
        s2 == Then(Call(s1, <<"glUseProgram", 0>>, <<"glUseProgram", 0>>, fault),
                   LAMBDA c : [c EXCEPT !.glCurrent = 0])
    IN  DeleteProgramStep(s2, fault)

deactivateProgramRun(st, fault) ==
    LET s1 == [st EXCEPT !.m_linked = FALSE,
                         !.m_attribLocations = VertexAttribLocations(-1, -1)]
        s2 == Then(Call(s1, <<"glUseProgram", 0>>, <<"glUseProgram", 0>>, fault),
                   LAMBDA c : [c EXCEPT !.glCurrent = 0])
        s3 == DeleteProgramStep(s2, fault)
        s4 == DeleteShaderStep(s3, TYPE_VERTEX, fault)
        s5 == DeleteShaderStep(s4, TYPE_GEOMETRY, fault)
        s6 == DeleteShaderStep(s5, TYPE_FRAGMENT, fault)
    IN  s6

\* ------------------------------------------------------------------------
\* CShader::compileAndAttachShader.  d is what the driver answers in this
\* attempt.
\* ------------------------------------------------------------------------
\* m_shaders[ shaderType ] = glCreateShader( ... ) and the test for 0
CreateShader(st, shaderType, d) ==
    Then(Call(st, <<"glCreateShader", shaderType>>, <<"glCreateShader", shaderType>>, d.fault),
         LAMBDA c :
             IF d.stage[shaderType] = "nohandle"
             THEN [c EXCEPT !.m_log = Append(@, <<"ERROR: failed on glCreateShader",
                                                  getShaderTypeName(shaderType)>>),
                            !.result = FALSE]
             ELSE [c EXCEPT !.m_shaders[shaderType] = NewName(c),
                            !.glShaders = @ \cup {NewName(c)}])

\* glShaderSource to the end of the function, on the shader object created
CompileShader(st, shaderType, d) ==
    IF st.thrown \/ ~st.result THEN st
    ELSE
    LET c3 == Call(st, <<"glShaderSource", shaderType>>,
                   <<"glShaderSource", st.m_shaders[shaderType],
                     m_shaderSources[shaderType]>>, d.fault)
        c4 == Call(c3, <<"glCompileShader", shaderType>>,
                   <<"glCompileShader", st.m_shaders[shaderType]>>, d.fault)
        c5 == Call(c4, <<"glGetShaderInfoLog", shaderType>>,
                   <<"glGetShaderInfoLog", st.m_shaders[shaderType]>>, d.fault)
        s5 == Then(c5, LAMBDA c :
                   [c EXCEPT !.m_log = Append(@, <<"ShaderInfoLog",
                                                   getShaderTypeName(shaderType),
                                                   d.stage[shaderType]>>)])
        c6 == Call(s5, <<"glGetShaderiv", shaderType>>,
                   <<"glGetShaderiv", st.m_shaders[shaderType], "GL_COMPILE_STATUS">>,
                   d.fault)
        s7 == Then(c6, LAMBDA c :
                   IF d.stage[shaderType] = "ok"
                   THEN Call(c, <<"glAttachShader", shaderType>>,
                             <<"glAttachShader", c.m_program, c.m_shaders[shaderType]>>,
                             d.fault)
                   ELSE [c EXCEPT !.result = FALSE])
    IN  s7

\* `asserted` keeps whether assert( m_shaders[ shaderType ] == 0 ) held
compileAndAttachShader(st, shaderType, d) ==
    IF st.thrown THEN st
    ELSE IF ~isShaderTypeAvailable(shaderType)
         THEN [st EXCEPT !.result = TRUE,
                         !.asserted = @ /\ st.m_shaders[shaderType] = 0]
    ELSE IF m_shaderSources[shaderType] = ""
         THEN [st EXCEPT !.result = TRUE,
                         !.asserted = @ /\ st.m_shaders[shaderType] = 0]
    ELSE CompileShader(
             CreateShader([st EXCEPT !.m_log = Append(@, <<"Compiling",
                                                          getShaderTypeName(shaderType)>>),
                                     !.result = TRUE,
                                     !.asserted = @ /\ st.m_shaders[shaderType] = 0],
                          shaderType, d),
             shaderType, d)

\* ------------------------------------------------------------------------
\* CShader::setupProgramParameters
\* ------------------------------------------------------------------------
\* a faulty setupProgramParameters without the test of the extension;
\* property C25_ParametersPrecedeLink tells it from setupProgramParameters
setupProgramParametersAlways(st, fault) ==
    LET c1 == Call(st, <<"glGetIntegerv", 0>>,
                   <<"glGetIntegerv", 0, "GL_MAX_GEOMETRY_OUTPUT_VERTICES_EXT">>, fault)
        c2 == Call(c1, <<"glProgramParameteriEXT", 0>>,
                   <<"glProgramParameteriEXT", st.m_program,
                     "GL_GEOMETRY_VERTICES_OUT_EXT", m_num_output>>, fault)
        c3 == Call(c2, <<"glProgramParameteriEXT", 1>>,
                   <<"glProgramParameteriEXT", st.m_program,
                     "GL_GEOMETRY_INPUT_TYPE_EXT", m_geometryInputType>>, fault)
        c4 == Call(c3, <<"glProgramParameteriEXT", 2>>,
                   <<"glProgramParameteriEXT", st.m_program,
                     "GL_GEOMETRY_OUTPUT_TYPE_EXT", m_geometryOutputType>>, fault)
    IN  c4

setupProgramParameters(st, fault) ==
    IF ~m_geometryShaderAvailable THEN st
    ELSE
    LET c1 == Call(st, <<"glGetIntegerv", 0>>,
                   <<"glGetIntegerv", 0, "GL_MAX_GEOMETRY_OUTPUT_VERTICES_EXT">>, fault)
        c2 == Call(c1, <<"glProgramParameteriEXT", 0>>,
                   <<"glProgramParameteriEXT", st.m_program,
                     "GL_GEOMETRY_VERTICES_OUT_EXT", m_num_output>>, fault)
        c3 == Call(c2, <<"glProgramParameteriEXT", 1>>,
                   <<"glProgramParameteriEXT", st.m_program,
                     "GL_GEOMETRY_INPUT_TYPE_EXT", m_geometryInputType>>, fault)
        c4 == Call(c3, <<"glProgramParameteriEXT", 2>>,
                   <<"glProgramParameteriEXT", st.m_program,
                     "GL_GEOMETRY_OUTPUT_TYPE_EXT", m_geometryOutputType>>, fault)
    IN  c4

\* the driver calls of one pass over the active uniforms
\* (glGetActiveUniform, glGetUniformLocation for each index)
UniformQueries(program, uniforms) ==
    [k \in 1 .. (2 * Len(uniforms)) |->
        IF k % 2 = 1
        THEN <<"glGetActiveUniform", program, (k - 1) \div 2>>
        ELSE <<"glGetUniformLocation", program, uniforms[k \div 2][1],
               uniforms[k \div 2][3]>>]

\* the custom attributes the driver lists as active
ActiveAttribs(a) ==
    (IF a.tangent /= -1 THEN << <<"attrTangent", a.tangent>> >> ELSE <<>>)
    \o (IF a.bitangent /= -1 THEN << <<"attrBitangent", a.bitangent>> >> ELSE <<>>)

AttribQueries(program, attribs) ==
    [k \in 1 .. (2 * Len(attribs)) |->
        IF k % 2 = 1
        THEN <<"glGetActiveAttrib", program, (k - 1) \div 2>>
        ELSE <<"glGetAttribLocation", program, attribs[k \div 2][1],
               attribs[k \div 2][2]>>]

\* CShader::logActiveUniforms
logActiveUniforms(st, d) ==
    Then(CallAll(Call(st, <<"glGetProgramiv", 2>>,
                      <<"glGetProgramiv", st.m_program, "GL_ACTIVE_UNIFORMS">>, d.fault),
                 <<"glGetActiveUniform", 0>>,
                 UniformQueries(st.m_program, d.uniforms), d.fault),
         LAMBDA c : [c EXCEPT !.m_log = Append(@, <<"Active Uniforms", d.uniforms>>)])

\* CShader::logActiveAttributes
logActiveAttributes(st, d) ==
    Then(CallAll(Call(st, <<"glGetProgramiv", 3>>,
                      <<"glGetProgramiv", st.m_program, "GL_ACTIVE_ATTRIBUTES">>, d.fault),
                 <<"glGetActiveAttrib", 0>>,
                 AttribQueries(st.m_program, ActiveAttribs(d.attribs)), d.fault),
         LAMBDA c : [c EXCEPT !.m_log = Append(@, <<"Active Attributes",
                                                    ActiveAttribs(d.attribs)>>)])

\* ------------------------------------------------------------------------
\* CShader::linkAndValidateProgram
\* ------------------------------------------------------------------------
\* a faulty link flag taken from the validation status; property
\* C8_LinkedOnlyIfLinkSucceeded tells it from LinkStatus
LinkStatusOfValidation(st, d) == d.valid

\* a faulty link flag that also wants the validation to succeed; property
\* C9_ValidationIsOnlyLogged tells it from LinkStatus
LinkStatusOfBoth(st, d) == d.link /\ d.valid

\* the value of GL_LINK_STATUS stored into m_linked
LinkStatus(st, d) == d.link

linkAndValidateProgram(st, d) ==
    LET s1  == [st EXCEPT !.m_log = Append(@, <<"Linking...">>)]
        s2  == setupProgramParameters(s1, d.fault)
        c3  == Call(s2, <<"glLinkProgram", 0>>, <<"glLinkProgram", st.m_program>>, d.fault)
        c4  == Call(c3, <<"glGetProgramInfoLog", 0>>,
                    <<"glGetProgramInfoLog", st.m_program>>, d.fault)
        s4  == Then(c4, LAMBDA c :
                    [c EXCEPT !.m_log = Append(@, <<"ProgramInfoLog", "link", d.link>>)])
        c5  == Call(s4, <<"glGetProgramiv", 0>>,
                    <<"glGetProgramiv", st.m_program, "GL_LINK_STATUS">>, d.fault)
        s5  == Then(c5, LAMBDA c :
                    [c EXCEPT !.m_linked = LinkStatus(c, d),
                              !.link = IF d.link THEN "ok" ELSE "fail"])
        c6  == Call(s5, <<"glValidateProgram", 0>>,
                    <<"glValidateProgram", st.m_program>>, d.fault)
        c7  == Call(c6, <<"glGetProgramiv", 1>>,
                    <<"glGetProgramiv", st.m_program, "GL_VALIDATE_STATUS">>, d.fault)
        s7  == Then(c7, LAMBDA c :
                    [c EXCEPT !.m_log = Append(@, <<"Validation",
                                  IF d.valid THEN "succeeded" ELSE "failed">>),
                              !.valid = IF d.valid THEN "ok" ELSE "fail"])
        c8  == Call(s7, <<"glGetProgramInfoLog", 1>>,
                    <<"glGetProgramInfoLog", st.m_program>>, d.fault)
        s8  == Then(c8, LAMBDA c :
                    [c EXCEPT !.m_log = Append(@, <<"ProgramInfoLog", "validate", d.valid>>),
                              !.m_timer = clock])
        c9  == Call(s8, <<"glGetAttribLocation", 0>>,
                    <<"glGetAttribLocation", st.m_program, "attrTangent",
                      d.attribs.tangent>>, d.fault)
        s9  == Then(c9, LAMBDA c :
                    [c EXCEPT !.m_attribLocations.tangent = d.attribs.tangent])
        c10 == Call(s9, <<"glGetAttribLocation", 1>>,
                    <<"glGetAttribLocation", st.m_program, "attrBitangent",
                      d.attribs.bitangent>>, d.fault)
        s10 == Then(c10, LAMBDA c :
                    [c EXCEPT !.m_attribLocations.bitangent = d.attribs.bitangent])
        s11 == logActiveUniforms(s10, d)
        s12 == logActiveAttributes(s11, d)
    IN  Then(s12, LAMBDA c : [c EXCEPT !.result = c.m_linked])

\* ------------------------------------------------------------------------
\* CShader::setupInitialUniforms
\* ------------------------------------------------------------------------
\* a faulty setupInitialUniforms that never forgets an old entry; property
\* C30_OnlyThePrecedingTable tells it from setupInitialUniforms
setupInitialUniformsKeepsOld(st, d) ==
    Then(CallAll(Call(st, <<"glGetProgramiv", 4>>,
                      <<"glGetProgramiv", st.m_program, "GL_ACTIVE_UNIFORMS">>, d.fault),
                 <<"glGetActiveUniform", 1>>,
                 UniformQueries(st.m_program, d.uniforms), d.fault),
         LAMBDA c :
             [c EXCEPT !.m_oldUniforms = @ \o c.m_activeUniforms,
                       !.m_activeUniforms =
                           [i \in 1 .. Len(d.uniforms) |->
                               CUniformNew(d.uniforms[i][1], d.uniforms[i][2],
                                           d.uniforms[i][3])],
                       !.tableOrigin = "current"])

setupInitialUniforms(st, d) ==
    Then(CallAll(Call(st, <<"glGetProgramiv", 4>>,
                      <<"glGetProgramiv", st.m_program, "GL_ACTIVE_UNIFORMS">>, d.fault),
                 <<"glGetActiveUniform", 1>>,
                 UniformQueries(st.m_program, d.uniforms), d.fault),
         LAMBDA c :
             [c EXCEPT !.m_oldUniforms = c.m_activeUniforms,
                       !.m_activeUniforms =
                           [i \in 1 .. Len(d.uniforms) |->
                               CUniformNew(d.uniforms[i][1], d.uniforms[i][2],
                                           d.uniforms[i][3])],
                       !.tableOrigin = "current"])

\* ------------------------------------------------------------------------
\* CShader::setupRememberedUniformState
\* ------------------------------------------------------------------------
\* a faulty inner loop that leaves the time variable out; property
\* C11_TimeIsMigratedLikeAnyOther tells it from RememberOne
RememberOneSkipsTime(old, active) ==
    [j \in 1 .. Len(active) |->
        IF /\ old.m_name = active[j].m_name
           /\ old.m_type = active[j].m_type
           /\ ~IsTimeVariable(old)
        THEN CUniformCopy(old, active[j].m_location)
        ELSE active[j]]

\* a faulty inner loop that stops at the first match; property
\* C13_EveryMatchTakesTheLastOld tells it from RememberOne
RememberOneFirstOnly(old, active) ==
    [j \in 1 .. Len(active) |->
        IF /\ old.m_name = active[j].m_name
           /\ old.m_type = active[j].m_type
           /\ \A k \in 1 .. (j - 1) :
                  ~(old.m_name = active[k].m_name /\ old.m_type = active[k].m_type)
        THEN CUniformCopy(old, active[j].m_location)
        ELSE active[j]]

\* a faulty inner loop that matches by the name alone; property
\* C26_TableIsTheReflectedList tells it from RememberOne
RememberOneByName(old, active) ==
    [j \in 1 .. Len(active) |->
        IF old.m_name = active[j].m_name
        THEN [CUniformCopy(old, active[j].m_location) EXCEPT !.m_type = active[j].m_type]
        ELSE active[j]]

\* the inner loop over j for one entry of m_oldUniforms
RememberOne(old, active) ==
    [j \in 1 .. Len(active) |->
        IF old.m_name = active[j].m_name /\ old.m_type = active[j].m_type
        THEN CUniformCopy(old, active[j].m_location)
        ELSE active[j]]

\* a faulty outer loop that takes up the last entry of m_oldUniforms only;
\* property C14_SameStructureKeepsTable tells it from RememberFrom
RememberLastOnly(i, olds, active) ==
    IF olds = <<>> THEN active ELSE RememberOne(olds[Len(olds)], active)

RECURSIVE RememberFrom(_, _, _)
\* the outer loop, from index i of m_oldUniforms on
RememberFrom(i, olds, active) ==
    IF i > Len(olds) THEN active
    ELSE RememberFrom(i + 1, olds, RememberOne(olds[i], active))

setupRememberedUniformState(st) ==
    IF st.thrown THEN st
    ELSE [st EXCEPT !.m_activeUniforms = RememberFrom(1, st.m_oldUniforms, @)]

\* ------------------------------------------------------------------------
\* CShader::compileAndLink2
\* ------------------------------------------------------------------------
\* totalResult = totalResult && result
AndResult(st) == IF st.thrown THEN st ELSE [st EXCEPT !.totalResult = @ /\ st.result]

\* a faulty loop that stops at the first stage that fails; property
\* C6_EveryStageIsCompiled tells it from CompileStages
CompileStagesAbort(st, d) ==
    LET r0 == AndResult(compileAndAttachShader(st, TYPE_VERTEX, d))
        r1 == IF r0.totalResult
              THEN AndResult(compileAndAttachShader(r0, TYPE_GEOMETRY, d)) ELSE r0
        r2 == IF r1.totalResult
              THEN AndResult(compileAndAttachShader(r1, TYPE_FRAGMENT, d)) ELSE r1
    IN  r2

\* the loop over the shader types
CompileStages(st, d) ==
    LET r0 == AndResult(compileAndAttachShader(st, TYPE_VERTEX, d))
        r1 == AndResult(compileAndAttachShader(r0, TYPE_GEOMETRY, d))
        r2 == AndResult(compileAndAttachShader(r1, TYPE_FRAGMENT, d))
    IN  r2

\* a faulty start of the attempt that keeps the log of the attempt before;
\* property C19_LogIsOfTheLastAttempt tells it from ClearLog
KeepLog(log) == log

\* m_log = QString()
ClearLog(log) == <<>>

\* m_program = glCreateProgram() and the test for 0
CreateProgram(st, d) ==
    Then(Call(st, <<"glCreateProgram", 0>>, <<"glCreateProgram">>, d.fault),
         LAMBDA c :
             IF d.program
             THEN [c EXCEPT !.m_program = NewName(c), !.glPrograms = @ \cup {NewName(c)}]
             ELSE [c EXCEPT !.m_program = 0,
                            !.m_log = Append(@, <<"ERROR: Failed on glCreateProgram()">>),
                            !.totalResult = FALSE])

\* if( totalResult ) { result = linkAndValidateProgram(); ... }
LinkIfCompiled(st, d) ==
    IF st.thrown \/ ~st.totalResult THEN st
    ELSE AndResult(linkAndValidateProgram(st, d))

\* a faulty post processing that also runs after a failed attempt; property
\* C28_FailuresKeepTheTable tells it from PostProcess
PostProcessAlways(st, d) ==
    IF st.thrown THEN st
    ELSE setupRememberedUniformState(setupInitialUniforms(st, d))

\* if( totalResult ) { setupInitialUniforms(); setupRememberedUniformState(); }
PostProcess(st, d) ==
    IF st.thrown \/ ~st.totalResult THEN st
    ELSE setupRememberedUniformState(setupInitialUniforms(st, d))

\* the part of compileAndLink2 after the program object was asked for
WithProgram(st, d) ==
    IF st.thrown \/ st.m_program = 0 THEN st
    ELSE PostProcess(LinkIfCompiled(CompileStages(st, d), d), d)

\* return totalResult
ReturnTotal(st) == [st EXCEPT !.result = st.totalResult]

compileAndLink2(st, d) ==
    LET s0 == deactivateProgramRun([st EXCEPT !.totalResult = TRUE], d.fault)
        s1 == Then(s0, LAMBDA c : [c EXCEPT !.m_log = ClearLog(@)])
        s2 == CreateProgram(s1, d)
        s3 == WithProgram(s2, d)
    IN  ReturnTotal(s3)

\* the text the catch block of compileAndLink puts into m_log
CriticalError == <<"*** CRITICAL ERROR ***">>

\* a faulty catch block that leaves the log alone; property
\* C4_FaultIsContained tells it from CatchLog
CatchKeepsLog(log) == log

\* the catch block of CShader::compileAndLink
CatchLog(log) == <<CriticalError>>

\* result = false; m_log = ...
CatchBlock(st) ==
    IF st.thrown THEN [st EXCEPT !.m_log = CatchLog(@), !.result = FALSE] ELSE st

\* ------------------------------------------------------------------------
\* CShader::compileAndLink: the run under the driver answers d
\* ------------------------------------------------------------------------
compileAndLinkRun(d) == CatchBlock(compileAndLink2(Cur, d))

AllSourcesEmpty == \A i \in Stages : m_shaderSources[i] = ""

Attached(i) == isShaderTypeAvailable(i) /\ m_shaderSources[i] /= ""

\* the answers the driver can give in one attempt, within the environment
\* env = [faults, programs, results, valids, attribs, tables].  An answer
\* that no call of the attempt asks for is fixed, and an attempt in which a
\* call throws has every other call succeed.  Only a program with a vertex
\* shader has active vertex attributes, and only a program with a shader has
\* active uniforms.
Reaches(program, stage) == program /\ (\A i \in Stages : stage[i] = "ok")

StageAnswers(env, i, fault, program) ==
    IF program /\ Attached(i) /\ fault = NoFault THEN env.results ELSE {"ok"}

LinkAnswers(fault, program, stage) ==
    IF Reaches(program, stage)
    THEN (IF fault = NoFault THEN BOOLEAN ELSE {TRUE})
    ELSE {FALSE}

ValidAnswers(env, fault, program, stage) ==
    IF Reaches(program, stage) /\ fault = NoFault THEN env.valids ELSE {TRUE}

AttribAnswers(env, fault, program, stage) ==
    IF Reaches(program, stage) /\ Attached(TYPE_VERTEX)
    THEN (IF fault = NoFault THEN env.attribs
          ELSE {CHOOSE a \in env.attribs : a.tangent /= -1})
    ELSE {VertexAttribLocations(-1, -1)}

UniformAnswers(env, link) ==
    IF link /\ ~(\A i \in Stages : ~Attached(i)) THEN env.tables ELSE {<<>>}

compileAndLink(env) ==
    \E fault \in env.faults \cup {NoFault} :
    \E program \in (IF fault = NoFault THEN env.programs ELSE {TRUE}) :
    \E s0 \in StageAnswers(env, TYPE_VERTEX, fault, program) :
    \E s1 \in StageAnswers(env, TYPE_GEOMETRY, fault, program) :
    \E s2 \in StageAnswers(env, TYPE_FRAGMENT, fault, program) :
    LET stage == [i \in Stages |-> IF i = TYPE_VERTEX THEN s0
                                   ELSE IF i = TYPE_GEOMETRY THEN s1 ELSE s2]
    IN
    \E link \in LinkAnswers(fault, program, stage) :
    \E valid \in ValidAnswers(env, fault, program, stage) :
    \E attribs \in AttribAnswers(env, fault, program, stage) :
    \E uniforms \in UniformAnswers(env, link) :
    \E r \in {compileAndLinkRun([fault |-> fault, program |-> program,
                                  stage |-> stage, link |-> link, valid |-> valid,
                                  attribs |-> attribs, uniforms |-> uniforms])} :
        /\ r.thrown = (fault /= NoFault)
        /\ m_activeUniforms' = r.m_activeUniforms
        /\ m_oldUniforms' = r.m_oldUniforms
        /\ m_linked' = r.m_linked
        /\ m_log' = r.m_log
        /\ m_timer' = r.m_timer
        /\ m_attribLocations' = r.m_attribLocations
        /\ m_shaders' = r.m_shaders
        /\ m_program' = r.m_program
        /\ glPrograms' = r.glPrograms
        /\ glShaders' = r.glShaders
        /\ glCurrent' = r.glCurrent
        /\ calls' = r.calls
        /\ tableOrigin' = r.tableOrigin
        /\ lastOp' = "compileAndLink"
        /\ lastResult' = r.result
        /\ attempt' = [status |-> IF r.thrown THEN "faulted"
                                  ELSE IF r.result THEN "ok" ELSE "failed",
                       link |-> r.link,
                       valid |-> r.valid,
                       empty |-> AllSourcesEmpty,
                       okAt |-> IF r.result THEN clock ELSE attempt.okAt,
                       asserted |-> r.asserted]
        /\ lastAttribs' = NoAttribLocations
        /\ UNCHANGED <<m_geometryShaderAvailable, m_num_output, m_geometryInputType,
                       m_geometryOutputType, m_shaderSources, clock, valueVars>>

\* ------------------------------------------------------------------------
\* CShader::deactivateProgram, called by the owner
\* ------------------------------------------------------------------------
deactivateProgram ==
    \E st \in {deactivateProgramRun(Cur, NoFault)} :
        /\ m_linked' = st.m_linked
        /\ m_attribLocations' = st.m_attribLocations
        /\ m_program' = st.m_program
        /\ m_shaders' = st.m_shaders
        /\ glPrograms' = st.glPrograms
        /\ glShaders' = st.glShaders
        /\ glCurrent' = st.glCurrent
        /\ tableOrigin' = st.tableOrigin
        /\ calls' = st.calls
        /\ lastOp' = "deactivateProgram"
        /\ lastResult' = TRUE
        /\ lastAttribs' = NoAttribLocations
        /\ attempt' = [NoAttempt EXCEPT !.status = "deactivated", !.okAt = attempt.okAt]
        /\ UNCHANGED <<m_activeUniforms, m_oldUniforms, m_geometryShaderAvailable,
                       m_log, m_timer, m_num_output, m_geometryInputType,
                       m_geometryOutputType, m_shaderSources, clock, valueVars>>

\* ------------------------------------------------------------------------
\* CShader::setShaderSource
\* ------------------------------------------------------------------------
\* a faulty setShaderSource that folds the stage number into the range;
\* property C18_SetShaderSourceOnlyStores tells it from setShaderSource
setShaderSourceWraps(shaderType, src) ==
    /\ m_shaderSources' =
           [m_shaderSources EXCEPT ![shaderType % MAX_SHADER_TYPES] = src]
    /\ calls' = <<>>
    /\ lastOp' = "setShaderSource"
    /\ lastResult' = TRUE
    /\ lastAttribs' = NoAttribLocations
    /\ UNCHANGED <<m_activeUniforms, m_oldUniforms, m_geometryShaderAvailable,
                   m_linked, m_log, m_timer, m_num_output, m_geometryInputType,
                   m_geometryOutputType, m_attribLocations, m_shaders, m_program,
                   driverVars, clock, attempt, tableOrigin, valueVars>>

setShaderSource(shaderType, src) ==
    /\ m_shaderSources' =
           IF shaderType >= 0 /\ shaderType < MAX_SHADER_TYPES
           THEN [m_shaderSources EXCEPT ![shaderType] = src]
           ELSE m_shaderSources
    /\ calls' = <<>>
    /\ lastOp' = "setShaderSource"
    /\ lastResult' = TRUE
    /\ lastAttribs' = NoAttribLocations
    /\ UNCHANGED <<m_activeUniforms, m_oldUniforms, m_geometryShaderAvailable,
                   m_linked, m_log, m_timer, m_num_output, m_geometryInputType,
                   m_geometryOutputType, m_attribLocations, m_shaders, m_program,
                   driverVars, clock, attempt, tableOrigin, valueVars>>

\* ------------------------------------------------------------------------
\* CShader::updateTimeVariable; QTime::elapsed is in milliseconds and
\* double(elapsed) * 0.001 is the double nearest to that many thousandths
\* ------------------------------------------------------------------------
Elapsed == clock - m_timer

updateTimeVariable(u) ==
    IF IsTimeVariable(u) THEN setValueAsFloat(u, 0, Double(Elapsed)) ELSE u

\* the types among the symbols above that the switch of applyToGL handles
AppliedTypes ==
    {GL_FLOAT, GL_FLOAT_VEC2, GL_FLOAT_VEC3, GL_FLOAT_VEC4, GL_FLOAT_MAT2,
     GL_FLOAT_MAT3, GL_FLOAT_MAT4, GL_INT, GL_INT_VEC2, GL_INT_VEC3, GL_INT_VEC4,
     GL_BOOL, GL_BOOL_VEC2, GL_BOOL_VEC3, GL_BOOL_VEC4, GL_SAMPLER_1D,
     GL_SAMPLER_2D, GL_SAMPLER_3D, GL_SAMPLER_CUBE, GL_SAMPLER_1D_SHADOW,
     GL_SAMPLER_2D_SHADOW}

\* the glUniform* command the switch of applyToGL calls for a type
UniformEntry(type) ==
    CASE type = GL_FLOAT      -> "glUniform1fv"
      [] type = GL_FLOAT_VEC2 -> "glUniform2fv"
      [] type = GL_FLOAT_VEC3 -> "glUniform3fv"
      [] type = GL_FLOAT_VEC4 -> "glUniform4fv"
      [] type = GL_FLOAT_MAT2 -> "glUniformMatrix2fv"
      [] type = GL_FLOAT_MAT3 -> "glUniformMatrix3fv"
      [] type = GL_FLOAT_MAT4 -> "glUniformMatrix4fv"
      [] type = GL_INT        -> "glUniform1iv"
      [] type = GL_INT_VEC2   -> "glUniform2iv"
      [] type = GL_INT_VEC3   -> "glUniform3iv"
      [] type = GL_INT_VEC4   -> "glUniform4iv"
      [] type = GL_BOOL       -> "glUniform1iv"
      [] type = GL_BOOL_VEC2  -> "glUniform2iv"
      [] type = GL_BOOL_VEC3  -> "glUniform3iv"
      [] type = GL_BOOL_VEC4  -> "glUniform4iv"
      [] type \in {GL_SAMPLER_1D, GL_SAMPLER_2D, GL_SAMPLER_3D, GL_SAMPLER_CUBE,
                   GL_SAMPLER_1D_SHADOW, GL_SAMPLER_2D_SHADOW} -> "glUniform1iv"
      [] OTHER                -> "none"

\* a faulty applyToGL without the test of the location; property
\* C15_BindPushesTheTable tells it from applyToGL
ApplyIgnoresLocation(u) ==
    IF u.m_type \notin AppliedTypes THEN <<>>
    ELSE << <<"glUniform", u.m_location, u.m_type, u.m_data, UniformEntry(u.m_type)>> >>

\* CUniform::applyToGL: the driver call it makes, if any
applyToGL(u) ==
    IF u.m_location = -1 THEN <<>>
    ELSE IF u.m_type \notin AppliedTypes THEN <<>>
    ELSE << <<"glUniform", u.m_location, u.m_type, u.m_data, UniformEntry(u.m_type)>> >>

RECURSIVE ApplyAll(_, _)
\* the driver calls of the loop of bindState over the table, from index i
ApplyAll(i, table) ==
    IF i > Len(table) THEN <<>>
    ELSE applyToGL(table[i]) \o ApplyAll(i + 1, table)

\* ------------------------------------------------------------------------
\* CShader::bindState
\* ------------------------------------------------------------------------
\* a faulty test that asks for a program object only; property
\* C16_UnlinkedBindFallsBack tells it from BindCondition
BindConditionProgramOnly == m_program /= 0

BindCondition == m_program /= 0 /\ m_linked

bindState ==
    /\ lastOp' = "bindState"
    /\ IF BindCondition
       THEN LET table == [i \in 1 .. Len(m_activeUniforms) |->
                             updateTimeVariable(m_activeUniforms[i])]
            IN  /\ glCurrent' = m_program
                /\ lastAttribs' = m_attribLocations
                /\ m_activeUniforms' = table
                /\ calls' = << <<"glUseProgram", m_program>> >> \o ApplyAll(1, table)
                /\ lastResult' = TRUE
       ELSE /\ lastAttribs' = VertexAttribLocations(-1, -1)
            /\ glCurrent' = 0
            /\ calls' = << <<"glUseProgram", 0>> >>
            /\ lastResult' = FALSE
            /\ UNCHANGED m_activeUniforms
    /\ UNCHANGED <<m_oldUniforms, m_geometryShaderAvailable, m_linked, m_log,
                   m_timer, m_num_output, m_geometryInputType, m_geometryOutputType,
                   m_attribLocations, m_shaderSources, m_shaders, m_program,
                   glPrograms, glShaders, clock, attempt, tableOrigin, valueVars>>

\* ------------------------------------------------------------------------
\* CShader::getActiveUniforms, getUniform, setUniform
\* ------------------------------------------------------------------------
getActiveUniforms == IF ~m_linked THEN 0 ELSE Len(m_activeUniforms)

\* getUniform on a given link flag and table; index is zero based
getUniformOf(linked, table, index) ==
    IF linked /\ index >= 0 /\ index < Len(table)
    THEN table[index + 1]
    ELSE CUniformDefault

getUniform(index) == getUniformOf(m_linked, m_activeUniforms, index)

\* a faulty test that does not compare the locations; property
\* C2_SetUniformGuard tells it from SetUniformAccepts
AcceptsAnyLocation(index, u) ==
    /\ ~(~m_linked \/ index < 0 \/ index >= Len(m_activeUniforms))
    /\ ~(\/ m_activeUniforms[index + 1].m_name /= u.m_name
         \/ m_activeUniforms[index + 1].m_type /= u.m_type)

\* a test that also turns away the time variable; property
\* C10_TimeIsWrittenLikeAnyOther tells it from SetUniformAccepts
AcceptsUnlessTime(index, u) ==
    /\ ~(~m_linked \/ index < 0 \/ index >= Len(m_activeUniforms))
    /\ ~(\/ m_activeUniforms[index + 1].m_name /= u.m_name
         \/ m_activeUniforms[index + 1].m_type /= u.m_type
         \/ m_activeUniforms[index + 1].m_location /= u.m_location)
    /\ ~IsTimeVariable(m_activeUniforms[index + 1])

\* the test of setUniform that lets the write through
SetUniformAccepts(index, u) ==
    /\ ~(~m_linked \/ index < 0 \/ index >= Len(m_activeUniforms))
    /\ ~(\/ m_activeUniforms[index + 1].m_name /= u.m_name
         \/ m_activeUniforms[index + 1].m_type /= u.m_type
         \/ m_activeUniforms[index + 1].m_location /= u.m_location)

setUniform(index, u) ==
    /\ m_activeUniforms' =
           IF SetUniformAccepts(index, u)
           THEN [m_activeUniforms EXCEPT ![index + 1] = u]
           ELSE m_activeUniforms
    /\ calls' = <<>>
    /\ lastOp' = "setUniform"
    /\ lastResult' = SetUniformAccepts(index, u)
    /\ lastAttribs' = NoAttribLocations
    /\ UNCHANGED <<m_oldUniforms, m_geometryShaderAvailable, m_linked, m_log,
                   m_timer, m_num_output, m_geometryInputType, m_geometryOutputType,
                   m_attribLocations, m_shaderSources, m_shaders, m_program,
                   driverVars, clock, attempt, tableOrigin, valueVars>>

\* ------------------------------------------------------------------------
\* CShader::init and CShader::shutdown
\* ------------------------------------------------------------------------
shutdown ==
    \E st \in {deactivateProgramRun(Cur, NoFault)} :
        /\ m_geometryShaderAvailable' = FALSE
        /\ m_linked' = st.m_linked
        /\ m_attribLocations' = st.m_attribLocations
        /\ m_program' = st.m_program
        /\ m_shaders' = st.m_shaders
        /\ glPrograms' = st.glPrograms
        /\ glShaders' = st.glShaders
        /\ glCurrent' = st.glCurrent
        /\ tableOrigin' = st.tableOrigin
        /\ calls' = st.calls
        /\ m_shaderSources' = [i \in Stages |-> ""]
        /\ lastOp' = "shutdown"
        /\ lastResult' = TRUE
        /\ lastAttribs' = NoAttribLocations
        /\ attempt' = [NoAttempt EXCEPT !.status = "deactivated", !.okAt = attempt.okAt]
        /\ UNCHANGED <<m_activeUniforms, m_oldUniforms, m_log, m_timer, m_num_output,
                       m_geometryInputType, m_geometryOutputType, clock, valueVars>>

\* init: shutdown, then GL_EXT_geometry_shader4 is looked up in the
\* extension string (CONFIG_ENABLE_GEOMETRY_SHADER is defined)
init(extension) ==
    \E st \in {deactivateProgramRun(Cur, NoFault)} :
        /\ m_geometryShaderAvailable' = extension
        /\ m_linked' = st.m_linked
        /\ m_attribLocations' = st.m_attribLocations
        /\ m_program' = st.m_program
        /\ m_shaders' = st.m_shaders
        /\ glPrograms' = st.glPrograms
        /\ glShaders' = st.glShaders
        /\ glCurrent' = st.glCurrent
        /\ tableOrigin' = st.tableOrigin
        /\ calls' = Append(st.calls, <<"glGetString", 0, "GL_EXTENSIONS">>)
        /\ m_shaderSources' = [i \in Stages |-> ""]
        /\ lastOp' = "init"
        /\ lastResult' = TRUE
        /\ lastAttribs' = NoAttribLocations
        /\ attempt' = [NoAttempt EXCEPT !.status = "deactivated", !.okAt = attempt.okAt]
        /\ UNCHANGED <<m_activeUniforms, m_oldUniforms, m_log, m_timer, m_num_output,
                       m_geometryInputType, m_geometryOutputType, clock, valueVars>>

\* ------------------------------------------------------------------------
\* CShader::~CShader, as `delete m_shader` of the owner runs it: the body is
\* empty, the members are destroyed and no driver call is made.  The model
\* keeps the fields as they were at that moment.
\* ------------------------------------------------------------------------
destroy ==
    /\ calls' = <<>>
    /\ lastOp' = "~CShader"
    /\ lastResult' = TRUE
    /\ lastAttribs' = NoAttribLocations
    /\ UNCHANGED <<shaderVars, driverVars, clock, attempt, tableOrigin, valueVars>>

\* the object has not been destroyed
Alive == lastOp /= "~CShader"

\* ------------------------------------------------------------------------
\* CShader::setGeometryInputType, setGeometryOutputType, setGeometryOutputNum
\* ------------------------------------------------------------------------
setGeometryInputType(type) ==
    /\ m_geometryInputType' =
           IF type \in {GL_POINTS, GL_LINES, GL_LINES_ADJACENCY_EXT, GL_TRIANGLES,
                        GL_TRIANGLES_ADJACENCY_EXT}
           THEN type ELSE m_geometryInputType
    /\ calls' = <<>>
    /\ lastOp' = "setGeometryInputType"
    /\ lastResult' = TRUE
    /\ lastAttribs' = NoAttribLocations
    /\ UNCHANGED <<m_activeUniforms, m_oldUniforms, m_geometryShaderAvailable,
                   m_linked, m_log, m_timer, m_num_output, m_geometryOutputType,
                   m_attribLocations, m_shaderSources, m_shaders, m_program,
                   driverVars, clock, attempt, tableOrigin, valueVars>>

setGeometryOutputType(type) ==
    /\ m_geometryOutputType' =
           IF type \in {GL_POINTS, GL_LINE_STRIP, GL_TRIANGLE_STRIP}
           THEN type ELSE m_geometryOutputType
    /\ calls' = <<>>
    /\ lastOp' = "setGeometryOutputType"
    /\ lastResult' = TRUE
    /\ lastAttribs' = NoAttribLocations
    /\ UNCHANGED <<m_activeUniforms, m_oldUniforms, m_geometryShaderAvailable,
                   m_linked, m_log, m_timer, m_num_output, m_geometryInputType,
                   m_attribLocations, m_shaderSources, m_shaders, m_program,
                   driverVars, clock, attempt, tableOrigin, valueVars>>

setGeometryOutputNum(type) ==
    /\ m_num_output' = type
    /\ calls' = <<>>
    /\ lastOp' = "setGeometryOutputNum"
    /\ lastResult' = TRUE
    /\ lastAttribs' = NoAttribLocations
    /\ UNCHANGED <<m_activeUniforms, m_oldUniforms, m_geometryShaderAvailable,
                   m_linked, m_log, m_timer, m_geometryInputType, m_geometryOutputType,
                   m_attribLocations, m_shaderSources, m_shaders, m_program,
                   driverVars, clock, attempt, tableOrigin, valueVars>>

\* ------------------------------------------------------------------------
\* The clock advances by one millisecond
\* ------------------------------------------------------------------------
Tick ==
    /\ clock < MaxClock
    /\ clock' = clock + 1
    /\ UNCHANGED <<shaderVars, driverVars, calls, lastOp, lastResult, lastAttribs,
                   attempt, tableOrigin, valueVars>>

\* ------------------------------------------------------------------------
\* The driver faults of the specification: one call site of every kind of
\* driver call compileAndLink makes
\* ------------------------------------------------------------------------
FaultSites ==
    { <<"glCreateProgram", 0>>, <<"glCreateShader", TYPE_VERTEX>>,
      <<"glCompileShader", TYPE_FRAGMENT>>, <<"glAttachShader", TYPE_FRAGMENT>>,
      <<"glProgramParameteriEXT", 0>>, <<"glLinkProgram", 0>>,
      <<"glValidateProgram", 0>>, <<"glGetAttribLocation", 0>>,
      <<"glGetProgramiv", 4>> }

\* ------------------------------------------------------------------------
\* Spec: the life cycle of the program object.  Every stage source, every
\* result of every stage, the link and validate results and the driver
\* faults vary; a linked program reports one attribute and two uniforms,
\* one of them without a location.
\* ------------------------------------------------------------------------
LifeEnv ==
    [faults |-> FaultSites, programs |-> BOOLEAN, results |-> StageResults,
     valids |-> BOOLEAN, attribs |-> {VertexAttribLocations(1, -1)},
     tables |-> { << <<"foo", GL_FLOAT_VEC3, 3>>, <<"bar", GL_FLOAT_MAT2, -1>> >> }]

Next ==
    \/ compileAndLink(LifeEnv)
    \/ deactivateProgram
    \/ bindState
    \/ \E shaderType \in Stages, src \in SourceTexts : setShaderSource(shaderType, src)
    \/ \E extension \in BOOLEAN : init(extension)

Spec == Init /\ [][Next]_vars

\* ------------------------------------------------------------------------
\* SpecUniforms: the uniform table.  The fragment source is set, every
\* stage compiles; the link result and the reflected uniform list vary, the
\* driver faults while validating or while the table is reflected, and the
\* caller writes uniforms, binds and lets time pass.
\* ------------------------------------------------------------------------
UniformFaultSites == { <<"glValidateProgram", 0>>, <<"glGetActiveUniform", 1>> }

UniformEnv ==
    [faults |-> UniformFaultSites, programs |-> {TRUE}, results |-> {"ok"},
     valids |-> {TRUE}, attribs |-> {VertexAttribLocations(1, -1)},
     tables |-> ReflectChoices]

NextUniforms ==
    \/ compileAndLink(UniformEnv)
    \/ deactivateProgram
    \/ bindState
    \/ \E src \in SourceTexts \ {""} : setShaderSource(TYPE_FRAGMENT, src)
    \/ \E index \in -1 .. MaxIndex, u \in UserUniforms : setUniform(index, u)
    \/ Tick

SpecUniforms == Init /\ [][NextUniforms]_vars

\* ------------------------------------------------------------------------
\* SpecMigration: setupRememberedUniformState on tables in which a name and
\* type occur twice.  The driver reports "foo" once or twice (at the
\* locations 3 and 7), every attempt links, and the caller writes payloads
\* into either entry between the attempts.
\* ------------------------------------------------------------------------
DuplicateChoices ==
    { << <<"foo", GL_FLOAT_VEC3, 3>> >>,
      << <<"foo", GL_FLOAT_VEC3, 3>>, <<"foo", GL_FLOAT_VEC3, 7>> >>,
      << <<"foo", GL_FLOAT_VEC3, 3>>, <<"Foo", GL_FLOAT_VEC3, 7>> >> }

MigrationEnv ==
    [faults |-> {}, programs |-> {TRUE}, results |-> {"ok"}, valids |-> {TRUE},
     attribs |-> {VertexAttribLocations(1, -1)}, tables |-> DuplicateChoices]

NextMigration ==
    \/ compileAndLink(MigrationEnv)
    \/ \E src \in SourceTexts \ {""} : setShaderSource(TYPE_FRAGMENT, src)
    \/ \E index \in -1 .. MaxIndex, u \in UserUniforms : setUniform(index, u)

SpecMigration == Init /\ [][NextMigration]_vars

\* ------------------------------------------------------------------------
\* SpecBind: bindState on tables of every uniform type of OpenGL 2.0.  The
\* vertex source is set and compiles, the link result varies, the driver
\* reports one of six uniform lists (one with an entry that has no location
\* and with the time variable) and one of two attribute records; the caller
\* writes "foo", binds and lets time pass.
\* ------------------------------------------------------------------------
BindTables ==
    { << <<"foo", GL_FLOAT_VEC3, 3>>, <<"bar", GL_FLOAT_MAT2, -1>>,
         <<"Time", GL_FLOAT, 5>> >>,
      << <<"v2", GL_FLOAT_VEC2, 0>>, <<"v4", GL_FLOAT_VEC4, 1>>,
         <<"m2", GL_FLOAT_MAT2, 2>>, <<"m3", GL_FLOAT_MAT3, 4>>,
         <<"m4", GL_FLOAT_MAT4, 7>> >>,
      << <<"i1", GL_INT, 0>>, <<"i2", GL_INT_VEC2, 1>>, <<"i3", GL_INT_VEC3, 2>>,
         <<"i4", GL_INT_VEC4, 3>> >>,
      << <<"b1", GL_BOOL, 3>>, <<"b2", GL_BOOL_VEC2, 2>>, <<"b3", GL_BOOL_VEC3, 1>>,
         <<"b4", GL_BOOL_VEC4, 0>> >>,
      << <<"s1", GL_SAMPLER_1D, 0>>, <<"s2", GL_SAMPLER_2D, -1>>,
         <<"s3", GL_SAMPLER_3D, 1>>, <<"sc", GL_SAMPLER_CUBE, 2>> >>,
      << <<"h1", GL_SAMPLER_1D_SHADOW, 0>>, <<"h2", GL_SAMPLER_2D_SHADOW, 1>> >> }

BindEnv ==
    [faults |-> {}, programs |-> {TRUE}, results |-> {"ok"}, valids |-> {TRUE},
     attribs |-> AttribChoices, tables |-> BindTables]

NextBind ==
    \/ compileAndLink(BindEnv)
    \/ bindState
    \/ \E src \in SourceTexts \ {""} : setShaderSource(TYPE_VERTEX, src)
    \/ \E u \in UserUniforms : setUniform(0, u)
    \/ Tick

SpecBind == Init /\ [][NextBind]_vars

\* ------------------------------------------------------------------------
\* SpecSources: the stored sources.  The caller stores one of two texts or
\* the empty text for the vertex and the fragment stage, also under the
\* stage numbers -1 and MAX_SHADER_TYPES, which name no stage; a stage
\* compiles or fails to, the link result varies; the caller links,
\* deactivates and binds.
\* ------------------------------------------------------------------------
OtherSource == "void main(){gl_FragColor=gl_Color;}"

StageNumbers == {-1, TYPE_VERTEX, TYPE_FRAGMENT, MAX_SHADER_TYPES}

SourceEnv ==
    [faults |-> {}, programs |-> {TRUE}, results |-> {"ok", "error"},
     valids |-> {TRUE}, attribs |-> {VertexAttribLocations(1, -1)},
     tables |-> { << <<"foo", GL_FLOAT_VEC3, 3>> >> }]

NextSources ==
    \/ compileAndLink(SourceEnv)
    \/ deactivateProgram
    \/ bindState
    \/ \E shaderType \in StageNumbers, src \in SourceTexts \cup {OtherSource} :
           setShaderSource(shaderType, src)

SpecSources == Init /\ [][NextSources]_vars

\* ------------------------------------------------------------------------
\* SpecHandles: the driver objects over the life of the CShader object, up
\* to its destruction.  The owner initialises, shuts down, stores sources,
\* links, deactivates and binds in any order and at last deletes the
\* object; a stage compiles, fails to or gets no shader object, the program
\* object may be refused, and the driver faults in the clean-up at the
\* start of an attempt or later in it.
\* ------------------------------------------------------------------------
HandleFaultSites ==
    { <<"glUseProgram", 0>>, <<"glDeleteProgram", 0>>, <<"glDeleteShader", TYPE_VERTEX>>,
      <<"glCreateProgram", 0>>, <<"glCreateShader", TYPE_FRAGMENT>>,
      <<"glAttachShader", TYPE_VERTEX>>, <<"glLinkProgram", 0>> }

HandleEnv ==
    [faults |-> HandleFaultSites, programs |-> BOOLEAN, results |-> StageResults,
     valids |-> {TRUE}, attribs |-> {VertexAttribLocations(1, -1)},
     tables |-> { << <<"foo", GL_FLOAT_VEC3, 3>> >> }]

NextHandles ==
    \/ Alive /\ compileAndLink(HandleEnv)
    \/ Alive /\ deactivateProgram
    \/ Alive /\ shutdown
    \/ Alive /\ init(FALSE)
    \/ Alive /\ bindState
    \/ Alive /\ \E shaderType \in {TYPE_VERTEX, TYPE_FRAGMENT}, src \in SourceTexts :
                    setShaderSource(shaderType, src)
    \/ Alive /\ destroy

SpecHandles == Init /\ [][NextHandles]_vars

\* ------------------------------------------------------------------------
\* SpecGeometry: the program parameters of the geometry stage.  The owner
\* initialises with or without GL_EXT_geometry_shader4, stores a vertex and
\* a geometry source, sets the input type, the output type and the number
\* of output vertices (also to types the setters turn away) and links; a
\* stage compiles, fails to or gets no shader object, and the driver faults
\* while the parameters are set.
\* ------------------------------------------------------------------------
GeometryEnv ==
    [faults |-> { <<"glProgramParameteriEXT", 1>> }, programs |-> {TRUE},
     results |-> StageResults, valids |-> {TRUE},
     attribs |-> {VertexAttribLocations(1, -1)}, tables |-> { <<>> }]

NextGeometry ==
    \/ compileAndLink(GeometryEnv)
    \/ \E extension \in BOOLEAN : init(extension)
    \/ \E shaderType \in {TYPE_VERTEX, TYPE_GEOMETRY} :
           setShaderSource(shaderType, "void main(){}")
    \/ \E type \in {GL_POINTS, GL_TRIANGLES, GL_TRIANGLE_STRIP} : setGeometryInputType(type)
    \/ \E type \in {GL_POINTS, GL_LINES} : setGeometryOutputType(type)
    \/ \E type \in {1, 4} : setGeometryOutputNum(type)

SpecGeometry == Init /\ [][NextGeometry]_vars

\* ------------------------------------------------------------------------
\* SpecRelink: the uniform table over a series of attempts.  The driver
\* reports one of three uniform lists, in which "foo" comes and goes as a
\* vec3 and is a float in between; the fragment stage compiles or fails to,
\* the link succeeds or fails, the driver faults while the new table is
\* reflected; the caller writes payloads, links and deactivates.
\* ------------------------------------------------------------------------
RelinkTables ==
    { << <<"foo", GL_FLOAT_VEC3, 3>> >>,
      << <<"foo", GL_FLOAT, 3>>, <<"bar", GL_FLOAT_MAT2, 5>> >>,
      << <<"bar", GL_FLOAT_MAT2, 1>>, <<"foo", GL_FLOAT_VEC3, 7>> >> }

RelinkEnv ==
    [faults |-> { <<"glGetActiveUniform", 1>> }, programs |-> {TRUE},
     results |-> {"ok", "error"}, valids |-> {TRUE},
     attribs |-> {VertexAttribLocations(1, -1)}, tables |-> RelinkTables]

NextRelink ==
    \/ compileAndLink(RelinkEnv)
    \/ deactivateProgram
    \/ \E src \in SourceTexts \ {""} : setShaderSource(TYPE_FRAGMENT, src)
    \/ \E index \in 0 .. 1, u \in UserUniforms : setUniform(index, u)

SpecRelink == Init /\ [][NextRelink]_vars

\* ------------------------------------------------------------------------
\* SpecValues: one CUniform object in the hands of a caller (the uniform
\* editor works on such a copy).  The caller constructs it with a name, a
\* type of OpenGL 2.0 and a location, and applies the setters its type
\* admits (uniform.h: the accessors of a base type are exclusive to it):
\* the float setter and, on a matrix, setColumnVector with a vector of the
\* column's type, or the int and bool setters.  The getters are constant
\* member functions; the properties apply them to `value`.
\* ------------------------------------------------------------------------
SamplerTypes ==
    {GL_SAMPLER_1D, GL_SAMPLER_2D, GL_SAMPLER_3D, GL_SAMPLER_CUBE,
     GL_SAMPLER_1D_SHADOW, GL_SAMPLER_2D_SHADOW}

\* the component indices the asserts of the accessors admit
Components == 0 .. 3

\* 0.1 and 0.5 as doubles, and the double that equals the float 0.1f
DoubleInputs == {Double(100), Double(500), [milli |-> 100, single |-> TRUE]}

IntInputs == {-1, 0, 7}

\* the vectors handed to setColumnVector: a fresh vector of the column's
\* type, and one whose four components were set to 0.5
ColumnInputs(m) ==
    { CUniformNew("v", ColumnType(m), -1),
      setValueAsFloat(setValueAsFloat(setValueAsFloat(setValueAsFloat(
          CUniformNew("v", ColumnType(m), -1),
          0, Double(500)), 1, Double(500)), 2, Double(500)), 3, Double(500)) }

shaderFrame ==
    <<shaderVars, driverVars, clock, calls, lastOp, lastResult, lastAttribs,
      attempt, tableOrigin>>

construct(type) ==
    /\ value' = CUniformNew("u", type, 0)
    /\ valueOp' = Constructed(type)
    /\ UNCHANGED shaderFrame

callSetValueAsFloat(component, x) ==
    /\ valueOp.count < MaxSets
    /\ getBaseType(value) = BASE_TYPE_FLOAT
    /\ value' = setValueAsFloat(value, component, x)
    /\ valueOp' = [op |-> "setValueAsFloat", index |-> component, arg |-> x,
                   count |-> valueOp.count + 1]
    /\ UNCHANGED shaderFrame

callSetValueAsInt(component, x) ==
    /\ valueOp.count < MaxSets
    /\ getBaseType(value) \in {BASE_TYPE_BOOL, BASE_TYPE_INT} \/ value.m_type \in SamplerTypes
    /\ value' = setValueAsInt(value, component, x)
    /\ valueOp' = [op |-> "setValueAsInt", index |-> component, arg |-> x,
                   count |-> valueOp.count + 1]
    /\ UNCHANGED shaderFrame

callSetValueAsBool(component, b) ==
    /\ valueOp.count < MaxSets
    /\ getBaseType(value) \in {BASE_TYPE_BOOL, BASE_TYPE_INT} \/ value.m_type \in SamplerTypes
    /\ value' = setValueAsBool(value, component, b)
    /\ valueOp' = [op |-> "setValueAsBool", index |-> component, arg |-> b,
                   count |-> valueOp.count + 1]
    /\ UNCHANGED shaderFrame

callSetColumnVector(column, v) ==
    /\ valueOp.count < MaxSets
    /\ ColumnComponents(value) /= 0
    /\ column < getColumnCount(value)
    /\ getBaseType(v) = getBaseType(value)
    /\ value' = setColumnVector(value, column, v)
    /\ valueOp' = [op |-> "setColumnVector", index |-> column, arg |-> v,
                   count |-> valueOp.count + 1]
    /\ UNCHANGED shaderFrame

NextValues ==
    \/ \E type \in AppliedTypes : construct(type)
    \/ \E component \in Components, x \in DoubleInputs : callSetValueAsFloat(component, x)
    \/ \E component \in Components, x \in IntInputs : callSetValueAsInt(component, x)
    \/ \E component \in Components, b \in BOOLEAN : callSetValueAsBool(component, b)
    \/ \E column \in Components, v \in ColumnInputs(value) : callSetColumnVector(column, v)

SpecValues == Init /\ [][NextValues]_vars

\* ========================================================================
\* Properties
\* ========================================================================
\* the driver calls of the most recent operation that are of one kind
CallsOf(kind) == SelectSeq(calls, LAMBDA c : c[1] = kind)

\* the build log holds the entry e
InLog(e) == \E k \in 1 .. Len(m_log) : m_log[k][1] = e[1] /\ m_log[k] = e

\* the locations the driver reported for the uniform called name during the
\* most recent operation
ReflectedLocations(name) ==
    { calls[k][4] : k \in { n \in 1 .. Len(calls) :
                               /\ calls[n][1] = "glGetUniformLocation"
                               /\ calls[n][3] = name } }

\* index is in range and the entry stored there has the name, the type and
\* the location of u
SlotMatches(index, u) ==
    /\ index >= 0
    /\ index < Len(m_activeUniforms)
    /\ m_activeUniforms[index + 1].m_name = u.m_name
    /\ m_activeUniforms[index + 1].m_type = u.m_type
    /\ m_activeUniforms[index + 1].m_location = u.m_location

\* ------------------------------------------------------------------------
\* C1: when compileAndLink succeeds, every entry of the new table carries
\* the location the driver has just reported for its name, and an entry
\* whose name and type were in the table before the attempt (m_oldUniforms,
\* with whatever payload setUniform had stored there) carries that payload:
\* getUniform returns the old payload with the new location.
\* ------------------------------------------------------------------------
C1_MigrationKeepsPayload ==
    (lastOp = "compileAndLink" /\ lastResult) =>
        \A j \in 1 .. Len(m_activeUniforms) :
            /\ ReflectedLocations(getUniform(j - 1).m_name)
                   = {getUniform(j - 1).m_location}
            /\ \A i \in 1 .. Len(m_oldUniforms) :
                   (/\ m_oldUniforms[i].m_name = getUniform(j - 1).m_name
                    /\ m_oldUniforms[i].m_type = getUniform(j - 1).m_type)
                   => getUniform(j - 1).m_data = m_oldUniforms[i].m_data

\* a relink has moved "foo" from location 3 to location 7, and the payload
\* written by setUniform is returned at location 7
C1_Witness ==
    /\ lastOp = "compileAndLink"
    /\ lastResult
    /\ \E i \in 1 .. Len(m_oldUniforms), j \in 1 .. Len(m_activeUniforms) :
           /\ m_oldUniforms[i].m_name = "foo"
           /\ m_oldUniforms[i].m_location = 3
           /\ m_oldUniforms[i].m_data \in UserData
           /\ getUniform(j - 1).m_name = "foo"
           /\ getUniform(j - 1).m_location = 7
           /\ getUniform(j - 1).m_data \in UserData

\* ------------------------------------------------------------------------
\* C2: setUniform( index, u ) leaves the whole table as it was when index
\* is out of range or the stored entry differs from u in name, type or
\* location; it changes the table only by putting u at index, and it does
\* so whenever the program is linked and the three are equal.
\* ------------------------------------------------------------------------
C2_SetUniformGuard ==
    [][ lastOp' = "setUniform" =>
            \A index \in -1 .. MaxIndex, u \in UserUniforms :
                setUniform(index, u) =>
                    /\ ~SlotMatches(index, u) => m_activeUniforms' = m_activeUniforms
                    /\ m_activeUniforms' /= m_activeUniforms =>
                           /\ SlotMatches(index, u)
                           /\ m_activeUniforms' = [m_activeUniforms EXCEPT ![index + 1] = u]
                    /\ (m_linked /\ SlotMatches(index, u)) =>
                           m_activeUniforms' = [m_activeUniforms EXCEPT ![index + 1] = u]
      ]_vars

\* setUniform was turned away on a linked program after a relink had moved
\* "foo" from location 3 to location 7
C2_Witness ==
    /\ lastOp = "setUniform"
    /\ ~lastResult
    /\ m_linked
    /\ \E i \in 1 .. Len(m_oldUniforms), j \in 1 .. Len(m_activeUniforms) :
           /\ m_oldUniforms[i].m_name = "foo"
           /\ m_oldUniforms[i].m_location = 3
           /\ m_activeUniforms[j].m_name = "foo"
           /\ m_activeUniforms[j].m_location = 7

\* ------------------------------------------------------------------------
\* C3: bindState returns true only if the most recent compileAndLink
\* returned true and the program has not been deactivated since: after a
\* deactivation, a failed attempt or an attempt that ended in the catch
\* block, bindState returns false.
\* Refuted: a driver call that throws after GL_LINK_STATUS was stored in
\* m_linked (glValidateProgram, glGetAttribLocation, the reflection calls)
\* ends the attempt in the catch block with m_linked still true and
\* m_program still set, so bindState binds the program and returns true.
\* ------------------------------------------------------------------------
C3_BoundOnlyAfterSuccess ==
    (lastOp = "bindState" /\ lastResult) => attempt.status = "ok"

\* ------------------------------------------------------------------------
\* C4: a driver call that throws inside compileAndLink does not end the
\* operation abnormally: compileAndLink returns false, and the build log
\* read afterwards holds the critical-error entry.
\* ------------------------------------------------------------------------
C4_FaultIsContained ==
    attempt.status = "faulted" =>
        /\ InLog(CriticalError)
        /\ lastOp = "compileAndLink" => ~lastResult

\* the driver threw after the link step of the attempt had succeeded
C4_Witness ==
    /\ lastOp = "compileAndLink"
    /\ attempt.status = "faulted"
    /\ attempt.link = "ok"
    /\ ~lastResult
    /\ m_log = <<CriticalError>>

\* ------------------------------------------------------------------------
\* C5: every location bindState passes to glUniform was reflected from the
\* program bindState has just put in use; a location reflected from the
\* program of an earlier attempt is never pushed to a later program.
\* Refuted: when a driver call throws between the store of m_linked and
\* setupInitialUniforms, the new program is bindable while m_activeUniforms
\* still is the table reflected from the deleted program.
\* ------------------------------------------------------------------------
C5_PushedLocationsAreCurrent ==
    (lastOp = "bindState" /\ lastResult /\ CallsOf("glUniform") /= <<>>) =>
        tableOrigin = "current"

\* ------------------------------------------------------------------------
\* C6: in an attempt that got its program object and in which no driver
\* call threw, every stage that is available and has a source is handed to
\* the driver (glCreateShader) in the order vertex, geometry, fragment, and
\* the log holds its name followed by its diagnostic, whether or not an
\* earlier stage failed; no other stage is handed to the driver; and when
\* one of the stages fails, compileAndLink returns false.
\* ------------------------------------------------------------------------
\* the stages of the source configuration that take part, in the loop order
AttachedStages == SelectSeq(<<TYPE_VERTEX, TYPE_GEOMETRY, TYPE_FRAGMENT>>, Attached)

\* the log entries that open a stage, and those that report on one
StageHeaders == SelectSeq(m_log, LAMBDA e : e[1] = "Compiling")

StageReports ==
    SelectSeq(m_log, LAMBDA e : e[1] \in {"ShaderInfoLog", "ERROR: failed on glCreateShader"})

\* the log entry at position k + 1 reports on the stage opened at position k
ReportFollows(k) ==
    /\ k < Len(m_log)
    /\ m_log[k + 1][1] \in {"ShaderInfoLog", "ERROR: failed on glCreateShader"}
    /\ m_log[k + 1][2] = m_log[k][2]

\* some stage of the attempt did not compile
SomeStageFailed ==
    \E k \in 1 .. Len(m_log) :
        \/ m_log[k][1] = "ERROR: failed on glCreateShader"
        \/ m_log[k][1] = "ShaderInfoLog" /\ m_log[k][3] /= "ok"

C7_EmptySourcesBindNothing ==
    (lastOp = "bindState" /\ attempt.status = "ok" /\ attempt.empty) =>
        (~lastResult /\ glCurrent = 0)

\* ------------------------------------------------------------------------
\* C8 as written: after compileAndLink the link status is true only if the
\* link step and the validate step both reported success.
\* Refuted: m_linked is GL_LINK_STATUS alone.
\* ------------------------------------------------------------------------
C8_LinkedNeedsValidation ==
    (lastOp = "compileAndLink" /\ attempt.status /= "faulted" /\ m_linked) =>
        (attempt.link = "ok" /\ attempt.valid = "ok")

\* ------------------------------------------------------------------------
\* C8, amended: the link status is true only if the link step of the most
\* recent attempt reported success; the validation status is not consulted,
\* so a program that linked and failed validation is linked and bindState
\* binds it.
\* ------------------------------------------------------------------------
C8_LinkedOnlyIfLinkSucceeded ==
    /\ m_linked => attempt.link = "ok"
    /\ (lastOp = "bindState" /\ lastResult) => attempt.link = "ok"

\* a program that linked and failed validation has been bound
C8_Witness ==
    /\ lastOp = "bindState"
    /\ lastResult
    /\ attempt.status = "ok"
    /\ attempt.link = "ok"
    /\ attempt.valid = "fail"
    /\ glCurrent = m_program

\* ------------------------------------------------------------------------
\* C9: a validation failure is written to the log and does not change the
\* link status: in an attempt in which no driver call threw and the link
\* step succeeded, m_linked is true and compileAndLink returns true whatever
\* the validation reported.
\* ------------------------------------------------------------------------
C9_ValidationIsOnlyLogged ==
    (lastOp = "compileAndLink" /\ attempt.status /= "faulted" /\ attempt.link = "ok") =>
        /\ m_linked
        /\ lastResult
        /\ attempt.valid = "fail" => InLog(<<"Validation", "failed">>)
        /\ attempt.valid = "ok" => InLog(<<"Validation", "succeeded">>)

\* the link succeeded, the validation failed, compileAndLink returned true
C9_Witness ==
    /\ lastOp = "compileAndLink"
    /\ attempt.link = "ok"
    /\ attempt.valid = "fail"
    /\ InLog(<<"Validation", "failed">>)
    /\ m_linked
    /\ lastResult

\* ------------------------------------------------------------------------
\* C10 as written: setUniform has no effect on a GL_FLOAT entry whose name
\* is "time" in any case: after a setUniform aimed at it, getUniform returns
\* the payload it returned before.
\* Refuted: setUniform does not look at the name; the test for "time" is in
\* CUniformWidget::acceptsUniform, not in CShader.
\* ------------------------------------------------------------------------
C10_TimeIsNeverWritten ==
    [][ lastOp' = "setUniform" =>
            \A index \in 0 .. MaxIndex, u \in UserUniforms :
                (/\ setUniform(index, u)
                 /\ index < Len(m_activeUniforms)
                 /\ IsTimeVariable(m_activeUniforms[index + 1]))
                => getUniformOf(m_linked', m_activeUniforms', index).m_data
                       = getUniform(index).m_data
      ]_vars

\* ------------------------------------------------------------------------
\* C10, amended: setUniform treats the time variable like every other
\* entry: on a linked program a setUniform whose name, type and location
\* match the stored time entry replaces it, and getUniform returns the
\* payload written.  The value lasts until the next bindState, which puts
\* the elapsed time into component 0 of the entry before it is pushed.
\* ------------------------------------------------------------------------
C10_TimeIsWrittenLikeAnyOther ==
    [][ /\ lastOp' = "setUniform" =>
               \A index \in 0 .. MaxIndex, u \in UserUniforms :
                   (/\ setUniform(index, u)
                    /\ m_linked
                    /\ SlotMatches(index, u)
                    /\ IsTimeVariable(m_activeUniforms[index + 1]))
                   => getUniformOf(m_linked', m_activeUniforms', index) = u
        /\ (lastOp' = "bindState" /\ bindState /\ lastResult') =>
               \A i \in 1 .. Len(m_activeUniforms) :
                   IsTimeVariable(m_activeUniforms[i]) =>
                       /\ getValueAsFloat(m_activeUniforms'[i], 0).milli = Elapsed
                       /\ \E k \in 1 .. Len(calls') :
                              calls'[k] = <<"glUniform", m_activeUniforms[i].m_location,
                                            GL_FLOAT, m_activeUniforms'[i].m_data,
                                            "glUniform1fv">>
      ]_vars

\* the payload (1, 0, 0, 1) has been written over the time variable
C10_Witness ==
    /\ lastOp = "setUniform"
    /\ lastResult
    /\ \E i \in 1 .. Len(m_activeUniforms) :
           /\ IsTimeVariable(m_activeUniforms[i])
           /\ getUniform(i - 1).m_data \in UserData

\* ------------------------------------------------------------------------
\* C11: migration skips the float scalar named "time" (in any letter
\* case): after a successful relink the "time" entry of the new table holds
\* the default payload of a freshly reflected entry, not the payload the
\* "time" entry of the old table held.
\* Refuted: setupRememberedUniformState compares name and type only and
\* copies the old payload into the "time" entry as into any other.
\* ------------------------------------------------------------------------
C11_TimeIsNotMigrated ==
    (lastOp = "compileAndLink" /\ lastResult) =>
        \A j \in 1 .. Len(m_activeUniforms) :
            IsTimeVariable(getUniform(j - 1)) =>
                getUniform(j - 1).m_data
                    = CUniformNew(getUniform(j - 1).m_name, getUniform(j - 1).m_type,
                                  getUniform(j - 1).m_location).m_data

\* the entries of the old table with the name and the type of u
OldMatches(u) ==
    { i \in 1 .. Len(m_oldUniforms) :
        m_oldUniforms[i].m_name = u.m_name /\ m_oldUniforms[i].m_type = u.m_type }

\* C11 as the code has it: after a successful relink the "time" entry of
\* the new table holds the payload of the old table's entry of the same
\* name and type when there is one, and the default payload of a freshly
\* reflected entry only when there is none.
C11_TimeIsMigratedLikeAnyOther ==
    (lastOp = "compileAndLink" /\ lastResult) =>
        \A j \in 1 .. Len(m_activeUniforms) :
            IsTimeVariable(getUniform(j - 1)) =>
                /\ \A i \in OldMatches(getUniform(j - 1)) :
                       getUniform(j - 1).m_data = m_oldUniforms[i].m_data
                /\ OldMatches(getUniform(j - 1)) = {} =>
                       getUniform(j - 1).m_data
                           = CUniformNew(getUniform(j - 1).m_name,
                                         getUniform(j - 1).m_type,
                                         getUniform(j - 1).m_location).m_data

\* a relink has carried a payload that is not the default into "Time"
C11_Witness ==
    /\ lastOp = "compileAndLink"
    /\ lastResult
    /\ \E j \in 1 .. Len(m_activeUniforms) :
           /\ IsTimeVariable(getUniform(j - 1))
           /\ OldMatches(getUniform(j - 1)) /= {}
           /\ getUniform(j - 1).m_data
                  /= CUniformNew(getUniform(j - 1).m_name, getUniform(j - 1).m_type,
                                 getUniform(j - 1).m_location).m_data

\* ------------------------------------------------------------------------
\* C12: in every bindState that returns true, the payload pushed to the
\* driver for a float scalar entry named "time" (in any letter case) is the
\* time elapsed on the clock since the most recent compileAndLink that
\* returned true, whatever was stored before (so that it grows from one
\* bindState to the next while the clock advances); an entry named "time"
\* of another type, and every other entry, is pushed with its stored
\* payload.
\* Refuted: the timer is restarted inside linkAndValidateProgram; an attempt
\* in which a driver call throws after that returns false and leaves the
\* program bindable (C3), and bindState then pushes the time elapsed since
\* that attempt.
\* ------------------------------------------------------------------------
C12_TimeIsElapsedSinceSuccess ==
    [][ (bindState /\ lastResult') =>
            \A j \in 1 .. Len(m_activeUniforms) :
                LET old == m_activeUniforms[j]
                    new == m_activeUniforms'[j]
                IN  /\ IsTimeVariable(old) =>
                           /\ new.m_data
                                  = [old.m_data EXCEPT ![1] = FloatBits(clock - attempt.okAt)]
                           /\ old.m_location /= -1 =>
                                  \E k \in 1 .. Len(calls') :
                                      calls'[k] = <<"glUniform", old.m_location,
                                                    old.m_type, new.m_data,
                                                    "glUniform1fv">>
                    /\ ~IsTimeVariable(old) => new = old
      ]_vars

\* ------------------------------------------------------------------------
\* C13: in migration the payload of an old entry is copied into the first
\* entry of the new table, in table order, that has its name and its type,
\* and into no other: when the new table holds several entries of one name
\* and type the later ones keep the default payload of a freshly reflected
\* entry, and when the old table holds several the first of them is the
\* one whose payload is taken.
\* Refuted: the inner loop of setupRememberedUniformState has no break and
\* the outer loop goes on after a match, so every entry of the new table
\* with that name and type ends with the payload of the last such entry of
\* the old table.
\* ------------------------------------------------------------------------
\* the entries of a table with the name and the type of u
Matches(table, u) ==
    { i \in 1 .. Len(table) : table[i].m_name = u.m_name /\ table[i].m_type = u.m_type }

\* the least and the greatest element of a nonempty set of indices
First(S) == CHOOSE i \in S : \A k \in S : i <= k

Last(S) == CHOOSE i \in S : \A k \in S : i >= k

\* the payload of a freshly reflected entry
DefaultData(u) == CUniformNew(u.m_name, u.m_type, u.m_location).m_data

C13_FirstMatchOnly ==
    (lastOp = "compileAndLink" /\ lastResult) =>
        \A j \in 1 .. Len(m_activeUniforms) :
            IF /\ Matches(m_oldUniforms, m_activeUniforms[j]) /= {}
               /\ j = First(Matches(m_activeUniforms, m_activeUniforms[j]))
            THEN m_activeUniforms[j].m_data
                     = m_oldUniforms[First(Matches(m_oldUniforms,
                                                   m_activeUniforms[j]))].m_data
            ELSE m_activeUniforms[j].m_data = DefaultData(m_activeUniforms[j])

\* C13 as the code has it: after a successful relink every entry of the
\* new table whose name and type occur in the old table holds the payload
\* of the last old entry of that name and type, whether or not an earlier
\* entry of the new table has the same name and type; an entry whose name
\* and type do not occur in the old table holds the default payload; and
\* every entry keeps the location reflected for it.
C13_EveryMatchTakesTheLastOld ==
    (lastOp = "compileAndLink" /\ lastResult) =>
        \A j \in 1 .. Len(m_activeUniforms) :
            /\ IF Matches(m_oldUniforms, m_activeUniforms[j]) /= {}
               THEN m_activeUniforms[j].m_data
                        = m_oldUniforms[Last(Matches(m_oldUniforms,
                                                     m_activeUniforms[j]))].m_data
               ELSE m_activeUniforms[j].m_data = DefaultData(m_activeUniforms[j])
            /\ \E k \in 1 .. Len(calls) :
                   /\ calls[k][1] = "glGetUniformLocation"
                   /\ calls[k][3] = m_activeUniforms[j].m_name
                   /\ calls[k][4] = m_activeUniforms[j].m_location

\* the old table held "foo" twice, with the default payload first and a
\* written payload second, and both "foo" entries of the new table hold the
\* written payload
C13_Witness ==
    /\ lastOp = "compileAndLink"
    /\ lastResult
    /\ Len(m_oldUniforms) = 2
    /\ Len(m_activeUniforms) = 2
    /\ Matches(m_oldUniforms, m_activeUniforms[1]) = {1, 2}
    /\ Matches(m_activeUniforms, m_activeUniforms[1]) = {1, 2}
    /\ m_oldUniforms[1].m_data = DefaultData(m_oldUniforms[1])
    /\ m_oldUniforms[2].m_data \in UserData
    /\ m_activeUniforms[1].m_data \in UserData
    /\ m_activeUniforms[2].m_data \in UserData

\* ------------------------------------------------------------------------
\* C14: when a compileAndLink that succeeds reflects the names, types and
\* locations the table had before the attempt, in the same order, the table
\* after the attempt is the table before it, payloads included: every
\* payload written by setUniform or stored by bindState is kept, and a
\* further relink with the same reflection starts from the same table and
\* so leaves it as it is once more.  (The driver reports every active
\* uniform once; tables that repeat a name and type are the matter of C13.)
\* ------------------------------------------------------------------------
\* the names, types and locations of a table
Structure(table) ==
    [i \in 1 .. Len(table) |->
        <<table[i].m_name, table[i].m_type, table[i].m_location>>]

C14_SameStructureKeepsTable ==
    (/\ lastOp = "compileAndLink"
     /\ lastResult
     /\ Structure(m_activeUniforms) = Structure(m_oldUniforms))
    => m_activeUniforms = m_oldUniforms

\* a relink has reflected "foo" and "Time" where they were, and the table
\* holds the payload written into "foo" and the elapsed time stored in
\* "Time" as before
C14_Witness ==
    /\ lastOp = "compileAndLink"
    /\ lastResult
    /\ Len(m_activeUniforms) = 2
    /\ Structure(m_activeUniforms) = Structure(m_oldUniforms)
    /\ m_activeUniforms[1].m_data \in UserData
    /\ m_activeUniforms[2].m_data /= DefaultData(m_activeUniforms[2])
    /\ m_activeUniforms = m_oldUniforms

\* ------------------------------------------------------------------------
\* C15: a bindState on a linked program returns true and hands the caller
\* the attribute locations stored by the link; its first driver call puts
\* the program in use, and the calls after it are one glUniform* call for
\* every table entry that has a location, in table order, at the location
\* of the entry, with the payload the entry holds, through the command of
\* its type; an entry with the location -1 makes no call.  The attribute
\* locations are those the driver reported in the attempt that linked the
\* program, and no operation other than a link or a deactivation changes
\* them.
\* ------------------------------------------------------------------------
\* the command OpenGL 2.0 has for a uniform of a type
CommandOf(type) ==
    CASE type \in {GL_FLOAT} -> "glUniform1fv"
      [] type \in {GL_FLOAT_VEC2} -> "glUniform2fv"
      [] type \in {GL_FLOAT_VEC3} -> "glUniform3fv"
      [] type \in {GL_FLOAT_VEC4} -> "glUniform4fv"
      [] type \in {GL_FLOAT_MAT2} -> "glUniformMatrix2fv"
      [] type \in {GL_FLOAT_MAT3} -> "glUniformMatrix3fv"
      [] type \in {GL_FLOAT_MAT4} -> "glUniformMatrix4fv"
      [] type \in {GL_INT_VEC2, GL_BOOL_VEC2} -> "glUniform2iv"
      [] type \in {GL_INT_VEC3, GL_BOOL_VEC3} -> "glUniform3iv"
      [] type \in {GL_INT_VEC4, GL_BOOL_VEC4} -> "glUniform4iv"
      [] OTHER -> "glUniform1iv"

\* the entries of a table that have a location
Bindable(table) == { j \in 1 .. Len(table) : table[j].m_location /= -1 }

C15_BindPushesTheTable ==
    [][ /\ (bindState /\ m_linked) =>
               /\ lastResult'
               /\ lastAttribs' = m_attribLocations
               /\ glCurrent' = m_program
               /\ Len(calls') = 1 + Cardinality(Bindable(m_activeUniforms'))
               /\ calls'[1] = <<"glUseProgram", m_program>>
               /\ \A j \in Bindable(m_activeUniforms') :
                      calls'[1 + Cardinality({i \in Bindable(m_activeUniforms') : i <= j})]
                          = <<"glUniform", m_activeUniforms'[j].m_location,
                              m_activeUniforms'[j].m_type, m_activeUniforms'[j].m_data,
                              CommandOf(m_activeUniforms'[j].m_type)>>
               /\ \A j \in 1 .. Len(m_activeUniforms) :
                      ~IsTimeVariable(m_activeUniforms[j]) =>
                          m_activeUniforms'[j] = m_activeUniforms[j]
        /\ (lastOp' = "compileAndLink" /\ attempt'.status = "ok" /\ m_linked') =>
               /\ <<"glGetAttribLocation", m_program', "attrTangent",
                    m_attribLocations'.tangent>> \in { calls'[k] : k \in 1 .. Len(calls') }
               /\ <<"glGetAttribLocation", m_program', "attrBitangent",
                    m_attribLocations'.bitangent>> \in { calls'[k] : k \in 1 .. Len(calls') }
        /\ (lastOp' \notin {"compileAndLink", "deactivateProgram", "init", "shutdown"}) =>
               m_attribLocations' = m_attribLocations
      ]_vars

\* a bindState has pushed a written "foo" and the time variable and has
\* passed over "bar", which has no location
C15_Witness ==
    /\ lastOp = "bindState"
    /\ lastResult
    /\ lastAttribs = VertexAttribLocations(1, 2)
    /\ Len(m_activeUniforms) = 3
    /\ m_activeUniforms[1].m_data \in UserData
    /\ m_activeUniforms[2].m_location = -1
    /\ Len(calls) = 3
    /\ calls[2][5] = "glUniform3fv"
    /\ calls[3][5] = "glUniform1fv"

\* ------------------------------------------------------------------------
\* C16: a bindState on a program that is not linked makes one driver call,
\* glUseProgram( 0 ), so that no program is in use and no uniform is
\* pushed; it returns false and hands the caller -1 for every attribute;
\* and it leaves the uniform table, the shader sources, the build log, the
\* link flag and the driver objects as they are.
\* ------------------------------------------------------------------------
C16_UnlinkedBindFallsBack ==
    [][ (bindState /\ ~m_linked) =>
            /\ calls' = << <<"glUseProgram", 0>> >>
            /\ glCurrent' = 0
            /\ ~lastResult'
            /\ lastAttribs' = VertexAttribLocations(-1, -1)
            /\ UNCHANGED <<m_activeUniforms, m_oldUniforms, m_shaderSources, m_log,
                           m_linked, m_program, m_shaders, glPrograms, glShaders>>
      ]_vars

\* a bindState has fallen back on a program object that failed to link,
\* with the table of the link before and the log of the failed attempt
C16_Witness ==
    /\ lastOp = "bindState"
    /\ ~lastResult
    /\ ~m_linked
    /\ m_program /= 0
    /\ attempt.link = "fail"
    /\ m_activeUniforms /= <<>>
    /\ m_log /= <<>>
    /\ glCurrent = 0
    /\ lastAttribs = NoAttribLocations

\* ------------------------------------------------------------------------
\* C17: deactivateProgram clears the link flag, deletes the program object
\* and every shader object the program has through the driver (and no
\* other), forgets their names and sets the attribute locations to -1,
\* while the source of every stage and the build log stay as they are; the
\* sources a compileAndLink hands to the driver are the stored ones, so an
\* attempt after a deactivation compiles what the attempt before compiled.
\* ------------------------------------------------------------------------
\* the driver calls of the operation under way that are of one kind
NewCallsOf(kind) == SelectSeq(calls', LAMBDA c : c[1] = kind)

C17_DeactivateKeepsSources ==
    [][ /\ deactivateProgram =>
               /\ ~m_linked'
               /\ m_program' = 0
               /\ \A i \in Stages : m_shaders'[i] = 0
               /\ m_attribLocations' = VertexAttribLocations(-1, -1)
               /\ glPrograms' = glPrograms \ {m_program}
               /\ glShaders' = glShaders \ { m_shaders[i] : i \in Stages }
               /\ glCurrent' = 0
               /\ NewCallsOf("glDeleteProgram")
                      = (IF m_program = 0 THEN <<>>
                         ELSE << <<"glDeleteProgram", m_program>> >>)
               /\ { c[2] : c \in { NewCallsOf("glDeleteShader")[k] :
                                      k \in 1 .. Len(NewCallsOf("glDeleteShader")) } }
                      = { m_shaders[i] : i \in Stages } \ {0}
               /\ Len(NewCallsOf("glDeleteShader"))
                      = Cardinality({ i \in Stages : m_shaders[i] /= 0 })
               /\ UNCHANGED <<m_shaderSources, m_log, m_activeUniforms>>
        /\ lastOp' = "compileAndLink" =>
               /\ UNCHANGED m_shaderSources
               /\ \A k \in 1 .. Len(NewCallsOf("glShaderSource")) :
                      \E i \in Stages :
                          /\ m_shaders'[i] = NewCallsOf("glShaderSource")[k][2]
                          /\ m_shaderSources[i] = NewCallsOf("glShaderSource")[k][3]
               /\ \A i \in Stages :
                      (isShaderTypeAvailable(i) /\ m_shaderSources[i] /= "") =>
                          \E k \in 1 .. Len(NewCallsOf("glShaderSource")) :
                              NewCallsOf("glShaderSource")[k][3] = m_shaderSources[i]
      ]_vars

\* a linked program with two shader objects and two different sources has
\* been deactivated
C17_Witness ==
    /\ lastOp = "deactivateProgram"
    /\ Len(CallsOf("glDeleteShader")) = 2
    /\ Len(CallsOf("glDeleteProgram")) = 1
    /\ m_shaderSources[TYPE_VERTEX] = OtherSource
    /\ m_shaderSources[TYPE_FRAGMENT] = "void main(){}"
    /\ m_log /= <<>>
    /\ ~m_linked
    /\ glPrograms = {}
    /\ glShaders = {}

\* ------------------------------------------------------------------------
\* C18: setShaderSource( shaderType, src ) makes no driver call and stores
\* src as the source of that stage, changing nothing else: the link flag,
\* the program and shader objects, the program in use, the uniform tables,
\* the attribute locations and the build log are as before, and so is what
\* bindState would do; with a stage number that names no stage the stored
\* sources stay as they are, too.
\* ------------------------------------------------------------------------
C18_SetShaderSourceOnlyStores ==
    [][ lastOp' = "setShaderSource" =>
            \A shaderType \in StageNumbers, src \in SourceTexts \cup {OtherSource} :
                setShaderSource(shaderType, src) =>
                    /\ calls' = <<>>
                    /\ shaderType \in Stages =>
                           /\ m_shaderSources'[shaderType] = src
                           /\ \A i \in Stages \ {shaderType} :
                                  m_shaderSources'[i] = m_shaderSources[i]
                    /\ shaderType \notin Stages => m_shaderSources' = m_shaderSources
                    /\ BindCondition' = BindCondition
                    /\ UNCHANGED <<m_linked, m_program, m_shaders, m_activeUniforms,
                                   m_oldUniforms, m_attribLocations, m_log, m_timer,
                                   glPrograms, glShaders, glCurrent>>
      ]_vars

\* the fragment source has been taken away while the program linked from it
\* is in use with its fragment shader object
C18_Witness ==
    /\ lastOp = "setShaderSource"
    /\ calls = <<>>
    /\ m_linked
    /\ glCurrent = m_program
    /\ m_program /= 0
    /\ m_shaders[TYPE_FRAGMENT] /= 0
    /\ m_shaderSources[TYPE_FRAGMENT] = ""
    /\ m_shaderSources[TYPE_VERTEX] = OtherSource

\* ------------------------------------------------------------------------
\* C19: after a compileAndLink the build log is the log of that attempt
\* and holds nothing of an attempt before: it has one entry for every step
\* of the attempt that writes one, and no other; and when a driver call
\* throws after stage or link entries were written, the log holds those
\* entries together with the critical-error entry.
\* Refuted: the catch block assigns the critical-error text to m_log, so
\* the entries written before the exception are gone.
\* ------------------------------------------------------------------------
\* the number of log entries of one kind
LogCount(kind) == Len(SelectSeq(m_log, LAMBDA e : e[1] = kind))

\* the log has the entries the driver calls of the attempt give rise to,
\* and no others, when no call threw
LogMatchesCalls ==
    /\ LogCount("Compiling") = Len(CallsOf("glCreateShader"))
    /\ LogCount("ShaderInfoLog") = Len(CallsOf("glGetShaderInfoLog"))
    /\ LogCount("ERROR: failed on glCreateShader")
           = Len(CallsOf("glCreateShader")) - Len(CallsOf("glGetShaderInfoLog"))
    /\ LogCount("Linking...") = Len(CallsOf("glLinkProgram"))
    /\ LogCount("ProgramInfoLog") = Len(CallsOf("glGetProgramInfoLog"))
    /\ LogCount("Validation") = Len(CallsOf("glValidateProgram"))
    /\ LogCount("Active Uniforms") = Len(CallsOf("glLinkProgram"))
    /\ LogCount("Active Attributes") = Len(CallsOf("glLinkProgram"))
    /\ LogCount("ERROR: Failed on glCreateProgram()") = (IF m_program = 0 THEN 1 ELSE 0)
    /\ Len(m_log) = 2 * Len(CallsOf("glCreateShader")) + 3 * Len(CallsOf("glLinkProgram"))
                        + Len(CallsOf("glGetProgramInfoLog"))
                        + Len(CallsOf("glValidateProgram"))
                        + (IF m_program = 0 THEN 1 ELSE 0)

C19_FaultKeepsTheLogs ==
    lastOp = "compileAndLink" =>
        IF attempt.status = "faulted"
        THEN /\ InLog(CriticalError)
             /\ LogCount("Compiling") = Len(CallsOf("glCreateShader"))
             /\ LogCount("Linking...") = Len(CallsOf("glLinkProgram"))
        ELSE LogMatchesCalls

\* C19 as the code has it: after a compileAndLink in which no driver call
\* threw, the build log has one entry for every step of that attempt that
\* writes one and nothing else; after a compileAndLink in which a driver
\* call threw, the build log is the critical-error entry alone.
C19_LogIsOfTheLastAttempt ==
    lastOp = "compileAndLink" =>
        IF attempt.status = "faulted"
        THEN m_log = <<CriticalError>>
        ELSE LogMatchesCalls

\* the driver threw after the program had been linked: the stage and link
\* entries had been written, and the log is the critical-error entry alone
C19_Witness ==
    /\ lastOp = "compileAndLink"
    /\ attempt.status = "faulted"
    /\ attempt.link = "ok"
    /\ CallsOf("glCreateShader") /= <<>>
    /\ CallsOf("glGetProgramInfoLog") /= <<>>
    /\ Len(m_log) = 1
    /\ m_oldUniforms /= <<>>

\* ------------------------------------------------------------------------
\* C20: a uniform constructed with the type GL_FLOAT_MAT2, GL_FLOAT_MAT3 or
\* GL_FLOAT_MAT4 holds the identity matrix: of the N x N floats, stored
\* column by column, the one at N * c + r is 1 when r = c and 0 when it is
\* not.  (The entries of a table reflected by a successful compileAndLink
\* that the old table has no match for are as constructed.)
\* Refuted: the test for the float vector types in the constructor is true
\* for every type, so the floats 0 to 3 are set to 0.1, 0.2, 0.3, 0.4
\* before the diagonal is set to 1, and the floats 1 and 2 of a 2 x 2, and
\* 1, 2 and 3 of a 3 x 3 or 4 x 4 matrix, stay nonzero.
\* ------------------------------------------------------------------------
\* the number of rows and columns of a matrix type
Dimension(type) ==
    CASE type = GL_FLOAT_MAT2 -> 2
      [] type = GL_FLOAT_MAT3 -> 3
      [] type = GL_FLOAT_MAT4 -> 4

IsIdentity(data, n) ==
    \A r \in 0 .. (n - 1), c \in 0 .. (n - 1) :
        data[n * c + r + 1] = (IF r = c THEN FloatBits(1000) ELSE FloatBits(0))

C20_MatricesStartAsIdentity ==
    (lastOp = "compileAndLink" /\ lastResult) =>
        \A j \in 1 .. Len(m_activeUniforms) :
            (/\ m_activeUniforms[j].m_type \in {GL_FLOAT_MAT2, GL_FLOAT_MAT3, GL_FLOAT_MAT4}
             /\ Matches(m_oldUniforms, m_activeUniforms[j]) = {})
            => IsIdentity(m_activeUniforms[j].m_data,
                          Dimension(m_activeUniforms[j].m_type))

\* ------------------------------------------------------------------------
\* C21: a CUniform constructed with a bool, int or sampler type has an
\* all-zero payload: getValueAsInt(i) is 0 and getValueAsBool(i) is false
\* for every component i in 0 .. 3.
\* ------------------------------------------------------------------------
C21_IntFamilyStartsAtZero ==
    (valueOp.op = "CUniform" /\ value.m_type \in AppliedTypes
        /\ (getBaseType(value) \in {BASE_TYPE_BOOL, BASE_TYPE_INT}
             \/ value.m_type \in SamplerTypes))
    => \A i \in Components :
           getValueAsInt(value, i) = 0 /\ getValueAsBool(value, i) = FALSE

\* whether static_cast<float> keeps the double x as it is
Representable(x) == x.single \/ x.milli \in SingleExact

\* the words of m_data except that of a component
OtherWords(component) == (1 .. DataWords) \ {component + 1}

\* ------------------------------------------------------------------------
\* C22, as claimed: for every component i in 0 .. 3 and every value x the
\* getter of a base type returns exactly the x its setter stored.
\* ------------------------------------------------------------------------
C22_RoundTripIsExact ==
    /\ valueOp.op = "setValueAsFloat" =>
           getValueAsFloat(value, valueOp.index) = valueOp.arg
    /\ valueOp.op = "setValueAsInt" =>
           getValueAsInt(value, valueOp.index) = valueOp.arg
    /\ valueOp.op = "setValueAsBool" =>
           getValueAsBool(value, valueOp.index) = valueOp.arg

\* ------------------------------------------------------------------------
\* C22, amended: for every component i in 0 .. 3, setValueAsFloat(i, x)
\* followed by getValueAsFloat(i) returns the float nearest to x, which is
\* x itself when x is representable in single precision, on a float-family
\* value; setValueAsInt(i, x) followed by getValueAsInt(i) returns x and
\* setValueAsBool(i, b) followed by getValueAsBool(i) returns b on a
\* bool/int-family value; each setter leaves the other components
\* unchanged.
\* ------------------------------------------------------------------------
C22_SettersRoundTrip ==
    [][ \A i \in Components :
          /\ \A x \in DoubleInputs :
                 callSetValueAsFloat(i, x) =>
                     /\ getValueAsFloat(value', i).milli = x.milli
                     /\ Representable(x) => getValueAsFloat(value', i) = x
                     /\ \A j \in OtherWords(i) : value'.m_data[j] = value.m_data[j]
          /\ \A x \in IntInputs :
                 callSetValueAsInt(i, x) =>
                     /\ getValueAsInt(value', i) = x
                     /\ \A j \in OtherWords(i) : value'.m_data[j] = value.m_data[j]
          /\ \A b \in BOOLEAN :
                 callSetValueAsBool(i, b) =>
                     /\ getValueAsBool(value', i) = b
                     /\ \A j \in OtherWords(i) : value'.m_data[j] = value.m_data[j]
      ]_vars

\* 0.1 has been stored into a component that held another value, and the
\* getter returns the float next to 0.1
C22_Witness ==
    /\ valueOp.op = "setValueAsFloat"
    /\ valueOp.arg = Double(100)
    /\ valueOp.index = 1
    /\ getValueAsFloat(value, 1) = [milli |-> 100, single |-> TRUE]

\* ------------------------------------------------------------------------
\* C23: on a matrix of type MatN, for every column c below N and every
\* float vector v of N components, getColumnVector(c) after
\* setColumnVector(c, v) is a FloatVecN whose first N components are those
\* of v, and setColumnVector(c, v) changes only the payload elements
\* N*c .. N*c+N-1.
\* ------------------------------------------------------------------------
C23_ColumnRoundTrip ==
    [][ \A c \in Components :
          \A v \in ColumnInputs(value) :
              callSetColumnVector(c, v) =>
                  /\ getColumnVector(value', c).m_type = v.m_type
                  /\ \A i \in 0 .. (getColumnCount(value) - 1) :
                         getValueAsFloat(getColumnVector(value', c), i)
                             = getValueAsFloat(v, i)
                  /\ \A j \in 1 .. DataWords :
                         (j - 1 < getColumnCount(value) * c
                              \/ j - 1 > getColumnCount(value) * c + getColumnCount(value) - 1)
                         => value'.m_data[j] = value.m_data[j]
      ]_vars

\* the last column of a mat3, which held (0, 0, 1), has been replaced by
\* (0.5, 0.5, 0.5)
C23_Witness ==
    /\ valueOp.op = "setColumnVector"
    /\ valueOp.index = 2
    /\ value.m_type = GL_FLOAT_MAT3
    /\ valueOp.arg.m_type = GL_FLOAT_VEC3
    /\ getValueAsFloat(valueOp.arg, 0) = Double(500)
    /\ \A i \in 0 .. 2 : getValueAsFloat(getColumnVector(value, 2), i) = Double(500)
    /\ value.m_data[6] = FloatBits(0)

\* ------------------------------------------------------------------------
\* C27: on a matrix the vector accessors address column 0 only: for every
\* component i in 0 .. 3, setValueAsFloat(i, x) changes no payload element
\* of another column, and getValueAsFloat(i) returns no element of another
\* column (so it returns the same after another column was replaced).
\* ------------------------------------------------------------------------
C27_VectorAccessIsColumnZero ==
    [][ ColumnComponents(value) /= 0 =>
          /\ \A i \in Components, x \in DoubleInputs :
                 callSetValueAsFloat(i, x) =>
                     \A j \in (getColumnCount(value) + 1) .. DataWords :
                         value'.m_data[j] = value.m_data[j]
          /\ \A c \in 1 .. 3, v \in ColumnInputs(value) :
                 callSetColumnVector(c, v) =>
                     \A i \in Components :
                         getValueAsFloat(value', i) = getValueAsFloat(value, i)
      ]_vars

\* ------------------------------------------------------------------------
\* C24: when the CShader object is destroyed, in whatever state, no program
\* object and no shader object it created is left undeleted in the driver.
\* ------------------------------------------------------------------------
C24_DestructionReleasesHandles ==
    lastOp = "~CShader" => (glPrograms = {} /\ glShaders = {})

\* the positions in the driver calls of the most recent operation at which
\* a call of the given kind was made
PositionsOf(kind) == { k \in 1 .. Len(calls) : calls[k][1] = kind }

ReportedLists == { m_log[k][2] : k \in { n \in 1 .. Len(m_log) : m_log[n][1] = "Active Uniforms" } }

\* ------------------------------------------------------------------------
\* C26: after a successful compileAndLink the table has one entry per
\* active uniform the driver reported, in the driver's order, each with
\* the reflected name, type and location; an entry whose name and type
\* occur together nowhere in the previous table (also one whose name
\* matches an old entry of another type) holds the payload of a freshly
\* constructed entry of its type.
\* ------------------------------------------------------------------------
C26_TableIsTheReflectedList ==
    (lastOp = "compileAndLink" /\ lastResult) =>
        /\ ReportedLists = {Structure(m_activeUniforms)}
        /\ \A j \in 1 .. Len(m_activeUniforms) :
               Matches(m_oldUniforms, m_activeUniforms[j]) = {}
               => m_activeUniforms[j].m_data = DefaultData(m_activeUniforms[j])

\* "foo" was a vec3 holding a payload of the user and is a float after the
\* relink, next to the new "bar"; both hold their defaults
C26_Witness ==
    /\ lastOp = "compileAndLink"
    /\ lastResult
    /\ Structure(m_activeUniforms) = << <<"foo", GL_FLOAT, 3>>, <<"bar", GL_FLOAT_MAT2, 5>> >>
    /\ Structure(m_oldUniforms) = << <<"foo", GL_FLOAT_VEC3, 3>> >>
    /\ m_oldUniforms[1].m_data \in UserData
    /\ m_activeUniforms[1].m_data = DefaultData(m_activeUniforms[1])
    /\ m_activeUniforms[1].m_data \notin UserData

\* ------------------------------------------------------------------------
\* C28: what the user wrote survives unsuccessful attempts.  A
\* compileAndLink that returns false and a deactivateProgram leave the
\* table and the table kept from before the last successful link as they
\* are; a compileAndLink that returns true migrates from the table as it
\* stood before the attempt, so an entry whose name and type are reflected
\* again holds the payload stored there, however many unsuccessful
\* attempts and deactivations lie in between.
\* ------------------------------------------------------------------------
C28_FailuresKeepTheTable ==
    [][ /\ (deactivateProgram \/ (lastOp' = "compileAndLink" /\ ~lastResult')) =>
               /\ m_activeUniforms' = m_activeUniforms
               /\ m_oldUniforms' = m_oldUniforms
        /\ (lastOp' = "compileAndLink" /\ lastResult') =>
               /\ m_oldUniforms' = m_activeUniforms
               /\ \A j \in 1 .. Len(m_activeUniforms') :
                      \A i \in Matches(m_activeUniforms, m_activeUniforms'[j]) :
                          m_activeUniforms'[j].m_data = m_activeUniforms[i].m_data
      ]_vars

\* after a successful link and a write of the user, an attempt has failed
\* and left the program unlinked; the table still holds the payload written
C28_Witness ==
    /\ lastOp = "compileAndLink"
    /\ ~lastResult
    /\ ~m_linked
    /\ attempt.status = "failed"
    /\ tableOrigin = "earlier"
    /\ Structure(m_activeUniforms) = << <<"foo", GL_FLOAT_VEC3, 3>> >>
    /\ m_activeUniforms[1].m_data \in UserData

ProgramCalls ==
    {"glDeleteProgram", "glLinkProgram", "glValidateProgram", "glGetProgramInfoLog",
     "glGetProgramiv", "glProgramParameteriEXT", "glGetActiveUniform",
     "glGetUniformLocation", "glGetActiveAttrib", "glGetAttribLocation", "glAttachShader"}

ShaderCalls ==
    {"glShaderSource", "glCompileShader", "glGetShaderInfoLog", "glGetShaderiv",
     "glDeleteShader"}

\* the program objects and the shader objects a driver call works on
ProgramsUsed(c) ==
    IF c[1] \in ProgramCalls THEN {c[2]}
    ELSE IF c[1] = "glUseProgram" THEN {c[2]} \ {0}
    ELSE {}

ShadersUsed(c) ==
    IF c[1] \in ShaderCalls THEN {c[2]}
    ELSE IF c[1] = "glAttachShader" THEN {c[3]}
    ELSE {}

RECURSIVE HandlesInOrder(_, _, _, _, _, _, _)
\* The driver calls cs from position k on, made while the program objects P
\* are undeleted and slots[i] names the undeleted shader object of stage i
\* (0 for none): every call works on undeleted objects only, a program
\* object is created only while none is undeleted and a shader object of a
\* stage only while that stage has none, and in the end the undeleted
\* objects are np (0 for none) and ns.  The calls after position n had no
\* effect (the driver threw).
HandlesInOrder(cs, k, n, P, slots, np, ns) ==
    IF k > Len(cs)
    THEN P = {np} \ {0} /\ slots = ns
    ELSE /\ ProgramsUsed(cs[k]) \subseteq P
         /\ ShadersUsed(cs[k]) \subseteq ({slots[i] : i \in Stages} \ {0})
         /\ cs[k][1] = "glCreateProgram" => P = {}
         /\ cs[k][1] = "glCreateShader" => slots[cs[k][2]] = 0
         /\ HandlesInOrder(cs, k + 1, n,
                CASE k > n -> P
                  [] cs[k][1] = "glCreateProgram" -> {np} \ {0}
                  [] cs[k][1] = "glDeleteProgram" -> P \ {cs[k][2]}
                  [] OTHER -> P,
                CASE k > n -> slots
                  [] cs[k][1] = "glCreateShader" -> [slots EXCEPT ![cs[k][2]] = ns[cs[k][2]]]
                  [] cs[k][1] = "glDeleteShader" ->
                         [i \in Stages |-> IF slots[i] = cs[k][2] THEN 0 ELSE slots[i]]
                  [] OTHER -> slots,
                np, ns)

\* the undeleted driver objects are the one program object m_program names
\* and the shader objects m_shaders names, one per stage at most
HandlesAreOwned ==
    /\ glPrograms = {m_program} \ {0}
    /\ glShaders = {m_shaders[i] : i \in Stages} \ {0}
    /\ \A i, j \in Stages : (m_shaders[i] = m_shaders[j] /\ m_shaders[i] /= 0) => i = j
    /\ glPrograms \cap glShaders = {}

\* ------------------------------------------------------------------------
\* C29: over any sequence of init, shutdown, setShaderSource,
\* compileAndLink (successful, failed or faulted), deactivateProgram and
\* bindState, at most one program object and one shader object per stage
\* are undeleted at any time, also between the driver calls of one
\* operation; no object is deleted twice and none is attached, linked,
\* used or queried after it was deleted; and the assert at the entry of
\* compileAndAttachShader (the slot of the stage is 0) never fails.
\* ------------------------------------------------------------------------
C29_HandlesAreKeptInOrder ==
    /\ HandlesAreOwned
    /\ [][ Alive =>
              /\ HandlesAreOwned'
              /\ attempt'.asserted
              /\ HandlesInOrder(calls', 1,
                                IF lastOp' = "compileAndLink" /\ attempt'.status = "faulted"
                                THEN Len(calls') - 1 ELSE Len(calls'),
                                glPrograms, m_shaders, m_program', m_shaders')
         ]_vars

\* a second successful link with a vertex and a fragment stage: the three
\* objects of the first were deleted and three new ones created
C29_Witness ==
    /\ lastOp = "compileAndLink"
    /\ lastResult
    /\ Cardinality(PositionsOf("glDeleteShader")) = 2
    /\ Cardinality(PositionsOf("glDeleteProgram")) = 1
    /\ Cardinality(PositionsOf("glCreateShader")) = 2
    /\ Cardinality(glShaders) = 2
    /\ Cardinality(glPrograms) = 1
    /\ attempt.asserted

====
